---- MODULE Spec2Model ----
(***************************************************************************)
(* Access groups of the UtxoView: the staged overlay over the durable      *)
(* store, and the connect / disconnect functions of the CreateAccessGroup, *)
(* AccessGroupMembers and AccessGroupAttributes transactions.              *)
(*                                                                         *)
(* Byte strings are sequences of naturals.  A public key is the two-byte   *)
(* sequence <<prefix, id>> (the prefix of a compressed point and a body),  *)
(* a group key name is the 32-byte zero-padded form of the name bytes of   *)
(* the transaction, an encrypted key is a byte string whose length is the  *)
(* only thing the code reads.                                              *)
(***************************************************************************)
EXTENDS Integers, Sequences, FiniteSets, TLC

VARIABLES
    bav,          \* the UtxoView: its four in-memory maps (the overlay)
    db,           \* the durable store (badger), read on an overlay miss
    tipHeight,    \* the block height the view connects transactions at
    flushes,      \* how many times a view was flushed to the store
    calls,        \* how many calls were made on the views
    chain,        \* the connected transactions, oldest first, each with its utxoOps
    last,         \* the last call made on the view and what it returned
    start,        \* what the getters returned before the oldest transaction of chain
    mempool       \* the pool of transactions the behaviour draws from

vars == <<bav, db, tipHeight, flushes, calls, chain, last, start, mempool>>

----------------------------------------------------------------------------
(* Bounds of the model *)

\* the most transactions connected and not yet disconnected
MaxTxns == 2
\* the most flushes of a view to the durable store
MaxFlushes == 1
\* the most calls (connects, disconnects, flushes) of a behaviour
MaxCalls == 5

----------------------------------------------------------------------------
(* Program constants *)

MinAccessKeyNameCharacters == 1
MaxAccessKeyNameCharacters == 32
PrivKeyBytesLen == 32

\* Fork heights, in their order on the chain, scaled down to consecutive heights.
DeSoV3MessagesBlockHeight == 1
ExtraDataOnEntriesBlockHeight == 2
DeSoAccessGroupsBlockHeight == 3

\* The member attribute type the mute list is kept under.
AccessGroupMemberAttributeIsMuted == 1

Nil == [isNil |-> TRUE]
NoError == "nil"

----------------------------------------------------------------------------
(* Keys and names *)

Bytes(n, b) == [i \in 1..n |-> b]

\* NewGroupKeyName: the first 32 bytes of the name, right-padded with zeros.
NewGroupKeyName(name) ==
    [i \in 1..MaxAccessKeyNameCharacters |-> IF i <= Len(name) THEN name[i] ELSE 0]

BaseGroupKeyName == Bytes(MaxAccessKeyNameCharacters, 0)

EqualGroupKeyName(a, b) == a = b

\* Public keys.  PkA, PkB sign transactions; PkP, PkQ are access keys.
PkA == <<2, 1>>
PkB == <<2, 2>>
PkP == <<2, 3>>
PkQ == <<2, 4>>
\* the secp256k1 base point, the owner of every unencrypted group
GetS256BasePointCompressed == <<2, 0>>
\* bytes that are no compressed curve point
PkInvalid == <<9>>

\* IsByteArrayValidPublicKey: nil when the bytes are a compressed point.
IsByteArrayValidPublicKey(pk) ==
    IF Len(pk) = 2 /\ pk[1] \in {2, 3} THEN NoError ELSE "RuleErrorPubKeyLen"

\* The access public key of an unencrypted group: the public key of the
\* private key Sha256DoubleHash(name), a collision-free function of the name
\* bytes as the transaction carries them (not of the padded form).
DerivedAccessPublicKey(name) == <<3>> \o name

NewAccessGroupKey(owner, name) == <<owner, NewGroupKeyName(name)>>
NewGroupMembershipKey(member, owner, name) == <<member, owner, NewGroupKeyName(name)>>
NewGroupEnumerationKey(owner, name, member) == <<owner, NewGroupKeyName(name), member>>

----------------------------------------------------------------------------
(* Maps *)

EmptyMap == [k \in {} |-> Nil]

MapSet(m, key, val) ==
    [k \in DOMAIN m \cup {key} |-> IF k = key THEN val ELSE m[k]]

MapGet(m, key) == IF key \in DOMAIN m THEN m[key] ELSE Nil

NewUtxoView ==
    [AccessGroupKeyToAccessGroupEntry |-> EmptyMap,
     GroupMembershipKeyToAccessGroupMember |-> EmptyMap,
     GroupMemberAttributes |-> EmptyMap,
     GroupEntryAttributes |-> EmptyMap]

EmptyDB ==
    [groups |-> EmptyMap, members |-> EmptyMap,
     memberAttrs |-> EmptyMap, groupAttrs |-> EmptyMap]

----------------------------------------------------------------------------
(* Entries *)

NewAccessGroupEntry(owner, accessPk, name, members, extraData) ==
    [GroupOwnerPublicKey |-> owner,
     AccessPublicKey |-> accessPk,
     AccessGroupKeyName |-> name,
     DEPRECATED_AccessGroupMembers |-> members,
     ExtraData |-> extraData,
     isDeleted |-> FALSE]

NewAccessGroupMember(pk, name, encryptedKey) ==
    [GroupMemberPublicKey |-> pk,
     GroupMemberKeyName |-> name,
     EncryptedKey |-> encryptedKey,
     isDeleted |-> FALSE]

NewAttributeEntry(isSet, value) ==
    [IsSet |-> isSet, Value |-> value, isDeleted |-> FALSE]

\* ExtraData is a set of <<key, value>> pairs with distinct keys.
ExtraDataKeys(e) == {p[1] : p \in e}

\* mergeExtraData: key-wise, the new value wins.
mergeExtraData(existing, new) ==
    new \cup {p \in existing : p[1] \notin ExtraDataKeys(new)}

\* The encoding of an entry: its fields in order.  isDeleted is not encoded.
EncodeToBytes(entry) ==
    <<entry.GroupOwnerPublicKey, entry.AccessGroupKeyName, entry.AccessPublicKey,
      entry.DEPRECATED_AccessGroupMembers, entry.ExtraData>>

\* A decoder that loses the member list, to set against DecodeFromBytes: the
\* copy of the previous entry that the connect keeps would restore an entry
\* without its members.
DecodeWithoutMembers(bytes) ==
    [GroupOwnerPublicKey |-> bytes[1],
     AccessPublicKey |-> bytes[3],
     AccessGroupKeyName |-> bytes[2],
     DEPRECATED_AccessGroupMembers |-> <<>>,
     ExtraData |-> bytes[5],
     isDeleted |-> FALSE]

DecodeFromBytes(bytes) ==
    [GroupOwnerPublicKey |-> bytes[1],
     AccessPublicKey |-> bytes[3],
     AccessGroupKeyName |-> bytes[2],
     DEPRECATED_AccessGroupMembers |-> bytes[4],
     ExtraData |-> bytes[5],
     isDeleted |-> FALSE]

----------------------------------------------------------------------------
(* The durable store *)

DBGetAccessGroupEntry(accessGroupKey) == MapGet(db.groups, accessGroupKey)

DBGetMemberFromMembershipIndex(member, owner, name) ==
    MapGet(db.members, <<member, owner, name>>)

DBGetAttributeEntryInGroupMemberAttributesIndex(enumerationKey, attributeType) ==
    MapGet(db.memberAttrs, <<enumerationKey, attributeType>>)

DBGetAttributeEntryInGroupEntryAttributesIndex(accessGroupKey, attributeType) ==
    MapGet(db.groupAttrs, <<accessGroupKey, attributeType>>)

\* The groups of the store that a user owns or is a member of by the
\* membership index.
DBGetAllUserGroupEntries(ownerPublicKey) ==
    {db.groups[k] : k \in {x \in DOMAIN db.groups :
        \/ x[1] = ownerPublicKey
        \/ <<ownerPublicKey, x[1], x[2]>> \in DOMAIN db.members}}

\* The groups of the store that a user owns or is listed in, by the member
\* list kept inside the entry.
DEPRECATEDDBGetAllUserGroupEntries(ownerPublicKey) ==
    {db.groups[k] : k \in {x \in DOMAIN db.groups :
        \/ x[1] = ownerPublicKey
        \/ \E i \in DOMAIN db.groups[x].DEPRECATED_AccessGroupMembers :
               db.groups[x].DEPRECATED_AccessGroupMembers[i].GroupMemberPublicKey
                   = ownerPublicKey}}

----------------------------------------------------------------------------
(* Getters and setters of the view.  A getter that may cache what it loads *)
(* returns the view with the value: [bav |-> view after, val |-> result]. *)

_setAccessGroupKeyToAccessGroupEntryMapping(v, ownerPublicKey, accessGroupEntry) ==
    IF accessGroupEntry = Nil THEN v
    ELSE [v EXCEPT !.AccessGroupKeyToAccessGroupEntry =
            MapSet(@, <<ownerPublicKey, accessGroupEntry.AccessGroupKeyName>>,
                   accessGroupEntry)]

\* A delete that drops the key from the overlay instead of leaving a
\* tombstone, to set against _deleteAccessGroupKeyToAccessGroupEntryMapping:
\* the durable entry would show through.
DropAccessGroupKeyFromOverlay(v, ownerPublicKey, accessGroupEntry) ==
    [v EXCEPT !.AccessGroupKeyToAccessGroupEntry =
        [k \in DOMAIN @ \ {<<ownerPublicKey, accessGroupEntry.AccessGroupKeyName>>} |-> @[k]]]

_deleteAccessGroupKeyToAccessGroupEntryMapping(v, ownerPublicKey, accessGroupEntry) ==
    _setAccessGroupKeyToAccessGroupEntryMapping(v, ownerPublicKey,
        [accessGroupEntry EXCEPT !.isDeleted = TRUE])

\* A getter that asks the durable store before the overlay, to set against
\* GetAccessGroupKeyToAccessGroupEntryMapping.
GetAccessGroupEntryStoreFirst(v, accessGroupKey) ==
    IF DBGetAccessGroupEntry(accessGroupKey) # Nil
    THEN [bav |-> _setAccessGroupKeyToAccessGroupEntryMapping(v, accessGroupKey[1],
                      DBGetAccessGroupEntry(accessGroupKey)),
          val |-> DBGetAccessGroupEntry(accessGroupKey)]
    ELSE [bav |-> v, val |-> MapGet(v.AccessGroupKeyToAccessGroupEntry, accessGroupKey)]

GetAccessGroupKeyToAccessGroupEntryMapping(v, accessGroupKey) ==
    IF EqualGroupKeyName(accessGroupKey[2], BaseGroupKeyName)
    THEN [bav |-> v,
          val |-> [GroupOwnerPublicKey |-> accessGroupKey[1],
                   AccessPublicKey |-> accessGroupKey[1],
                   AccessGroupKeyName |-> BaseGroupKeyName,
                   DEPRECATED_AccessGroupMembers |-> <<>>,
                   ExtraData |-> {},
                   isDeleted |-> FALSE]]
    ELSE IF accessGroupKey \in DOMAIN v.AccessGroupKeyToAccessGroupEntry
    THEN [bav |-> v, val |-> v.AccessGroupKeyToAccessGroupEntry[accessGroupKey]]
    ELSE LET accessGroupEntry == DBGetAccessGroupEntry(accessGroupKey) IN
         IF accessGroupEntry # Nil
         THEN [bav |-> _setAccessGroupKeyToAccessGroupEntryMapping(
                           v, accessGroupKey[1], accessGroupEntry),
               val |-> accessGroupEntry]
         ELSE [bav |-> v, val |-> Nil]

GetAccessGroupEntry(v, memberPublicKey, groupOwnerPublicKey, groupKeyName) ==
    LET accessGroupKey == <<groupOwnerPublicKey, groupKeyName>> IN
    IF accessGroupKey \in DOMAIN v.AccessGroupKeyToAccessGroupEntry
    THEN [bav |-> v, val |-> v.AccessGroupKeyToAccessGroupEntry[accessGroupKey]]
    ELSE GetAccessGroupKeyToAccessGroupEntryMapping(v, accessGroupKey)

GetAccessGroupForAccessGroupKeyExistence(v, accessGroupKey) ==
    LET r == GetAccessGroupEntry(v, accessGroupKey[1], accessGroupKey[1], accessGroupKey[2]) IN
    IF r.val = Nil \/ r.val.isDeleted THEN [bav |-> r.bav, val |-> Nil] ELSE r

_setGroupMembershipKeyToAccessGroupMemberMapping(v, accessGroupMember, owner, name) ==
    IF accessGroupMember = Nil THEN v
    ELSE [v EXCEPT !.GroupMembershipKeyToAccessGroupMember =
            MapSet(@, <<accessGroupMember.GroupMemberPublicKey, owner, name>>,
                   accessGroupMember)]

GetAccessGroupMember(v, memberPublicKey, groupOwnerPublicKey, groupKeyName) ==
    LET groupMembershipKey == <<memberPublicKey, groupOwnerPublicKey, groupKeyName>> IN
    IF groupMembershipKey \in DOMAIN v.GroupMembershipKeyToAccessGroupMember
    THEN [bav |-> v, val |-> v.GroupMembershipKeyToAccessGroupMember[groupMembershipKey]]
    ELSE LET accessGroupMember ==
                DBGetMemberFromMembershipIndex(memberPublicKey, groupOwnerPublicKey, groupKeyName)
         IN IF accessGroupMember # Nil
            THEN [bav |-> _setGroupMembershipKeyToAccessGroupMemberMapping(
                              v, accessGroupMember, groupOwnerPublicKey, groupKeyName),
                  val |-> accessGroupMember]
            ELSE [bav |-> v, val |-> Nil]

_setAccessGroupMember(v, groupOwnerPublicKey, groupKeyName, accessGroupMember) ==
    IF accessGroupMember = Nil THEN v
    ELSE _setGroupMembershipKeyToAccessGroupMemberMapping(
             v, accessGroupMember, groupOwnerPublicKey, groupKeyName)

_deleteAccessGroupMember(v, accessGroupMember, groupOwnerPublicKey, groupKeyName) ==
    IF accessGroupMember = Nil THEN v
    ELSE _setGroupMembershipKeyToAccessGroupMemberMapping(
             v, [accessGroupMember EXCEPT !.isDeleted = TRUE],
             groupOwnerPublicKey, groupKeyName)

\* The entries come back in the iteration order of a map: the result is the
\* set of them.  The member lookups of the scan cache what they load.
GetAccessGroupEntriesForUser(v, ownerPublicKey, blockHeight) ==
    LET overlay == v.AccessGroupKeyToAccessGroupEntry
        postFork == blockHeight >= DeSoAccessGroupsBlockHeight
        member(k) == GetAccessGroupMember(v, ownerPublicKey, k[1], k[2])
        scanned == {k \in DOMAIN overlay : k[1] # ownerPublicKey /\ postFork}
        fromView ==
            {k \in DOMAIN overlay :
                \/ k[1] = ownerPublicKey
                \/ IF postFork
                   THEN member(k).val # Nil
                   ELSE \E i \in DOMAIN overlay[k].DEPRECATED_AccessGroupMembers :
                            overlay[k].DEPRECATED_AccessGroupMembers[i].GroupMemberPublicKey
                                = ownerPublicKey}
        dbGroupEntries ==
            IF postFork THEN DBGetAllUserGroupEntries(ownerPublicKey)
            ELSE DEPRECATEDDBGetAllUserGroupEntries(ownerPublicKey)
        fromDb == {e \in dbGroupEntries :
                      <<e.GroupOwnerPublicKey, e.AccessGroupKeyName>> \notin fromView}
        accessKeysMap == {overlay[k] : k \in fromView} \cup fromDb
        loaded == {k \in scanned :
                      /\ <<ownerPublicKey, k[1], k[2]>>
                             \notin DOMAIN v.GroupMembershipKeyToAccessGroupMember
                      /\ member(k).val # Nil}
    IN [bav |-> [v EXCEPT !.GroupMembershipKeyToAccessGroupMember =
                    [mk \in DOMAIN @ \cup {<<ownerPublicKey, k[1], k[2]>> : k \in loaded} |->
                        IF mk \in DOMAIN @ THEN @[mk]
                        ELSE DBGetMemberFromMembershipIndex(mk[1], mk[2], mk[3])]],
        val |-> {e \in accessKeysMap : ~e.isDeleted}]

GetGroupMemberAttributeEntry(v, enumerationKey, attributeType) ==
    IF <<enumerationKey, attributeType>> \in DOMAIN v.GroupMemberAttributes
    THEN v.GroupMemberAttributes[<<enumerationKey, attributeType>>]
    ELSE DBGetAttributeEntryInGroupMemberAttributesIndex(enumerationKey, attributeType)

_setGroupMemberAttributeMapping(v, enumerationKey, attributeType, attributeEntry) ==
    [v EXCEPT !.GroupMemberAttributes =
        MapSet(@, <<enumerationKey, attributeType>>, attributeEntry)]

_deleteGroupMemberAttributeMapping(v, enumerationKey, attributeType, attributeEntry) ==
    IF attributeEntry = Nil THEN v
    ELSE _setGroupMemberAttributeMapping(v, enumerationKey, attributeType,
             [attributeEntry EXCEPT !.isDeleted = TRUE])

GetGroupEntryAttributeEntry(v, accessGroupKey, attributeType) ==
    IF <<accessGroupKey, attributeType>> \in DOMAIN v.GroupEntryAttributes
    THEN v.GroupEntryAttributes[<<accessGroupKey, attributeType>>]
    ELSE DBGetAttributeEntryInGroupEntryAttributesIndex(accessGroupKey, attributeType)

_setGroupEntryAttributeMapping(v, accessGroupKey, attributeType, attributeEntry) ==
    [v EXCEPT !.GroupEntryAttributes =
        MapSet(@, <<accessGroupKey, attributeType>>, attributeEntry)]

_deleteGroupEntryAttributeMapping(v, accessGroupKey, attributeType, attributeEntry) ==
    IF attributeEntry = Nil THEN v
    ELSE _setGroupEntryAttributeMapping(v, accessGroupKey, attributeType,
             [attributeEntry EXCEPT !.isDeleted = TRUE])

----------------------------------------------------------------------------
(* Validation helpers *)

\* The validation with the upper limit compared inclusively.
ValidateNameBelowMaximum(accessPublicKey, keyName) ==
    IF IsByteArrayValidPublicKey(accessPublicKey) # NoError
    THEN IsByteArrayValidPublicKey(accessPublicKey)
    ELSE IF Len(keyName) < MinAccessKeyNameCharacters
    THEN "RuleErrorAccessKeyNameTooShort"
    ELSE IF Len(keyName) >= MaxAccessKeyNameCharacters
    THEN "RuleErrorAccessKeyNameTooLong"
    ELSE NoError

ValidateGroupPublicKeyAndName(accessPublicKey, keyName) ==
    IF IsByteArrayValidPublicKey(accessPublicKey) # NoError
    THEN IsByteArrayValidPublicKey(accessPublicKey)
    ELSE IF Len(keyName) < MinAccessKeyNameCharacters
    THEN "RuleErrorAccessKeyNameTooShort"
    ELSE IF Len(keyName) > MaxAccessKeyNameCharacters
    THEN "RuleErrorAccessKeyNameTooLong"
    ELSE NoError

----------------------------------------------------------------------------
(* Collaborators of the connect functions *)

\* GetAccessGroupOperation: the operation tag the transaction carries.
GetAccessGroupOperation(txn) == [val |-> txn.AccessGroupOperation, err |-> NoError]

\* _connectBasicTransfer: the coin side of a transaction.  It fails or not for
\* reasons of its own (basicOk); on success it yields its own operations.
BasicTransferOps == <<[Type |-> "OperationTypeSpendUtxo"]>>

\* What a connect function returns, with the view it leaves behind and
\* whether _connectBasicTransfer was run: "none", "failed" or "connected".
ConnectResult(v, err, utxoOps, basic) ==
    [bav |-> v, err |-> err, utxoOps |-> utxoOps, basic |-> basic]

\* A comparison that finds every access public key the key of the existing
\* entry, to set against AccessPublicKeyDiffers.
AccessPublicKeyNeverDiffers(existingEntry, accessPublicKey) == FALSE

\* The comparison of the access public key of the transaction, after the
\* remapping, with the key of the existing entry.
AccessPublicKeyDiffers(existingEntry, accessPublicKey) ==
    existingEntry.AccessPublicKey # accessPublicKey

\* The unencrypted-group remapping of the key and of the access public key.
ResolveAccessGroupKey(txnPublicKey, accessPublicKey, name) ==
    IF accessPublicKey = GetS256BasePointCompressed
    THEN NewAccessGroupKey(GetS256BasePointCompressed, name)
    ELSE NewAccessGroupKey(txnPublicKey, name)

\* The access public key of the transaction kept as written, to set against
\* ResolveAccessPublicKey.
KeepAccessPublicKey(accessPublicKey, name) == accessPublicKey

ResolveAccessPublicKey(accessPublicKey, name) ==
    IF accessPublicKey = GetS256BasePointCompressed
    THEN DerivedAccessPublicKey(name)
    ELSE accessPublicKey

IsLive(entry) == entry # Nil /\ ~entry.isDeleted

----------------------------------------------------------------------------
(* _connectAccessGroupCreate *)

\* The checks every add path makes on one member: the length of the encrypted
\* key, the member's key and key name, and the member's own access group,
\* which is read through (and cached by) the view.
\* A member check that records the member in the membership index of the
\* group (A, <<1>>) before it rejects it, to set against ValidateAccessMember:
\* a rejected transaction would leave a write behind.
ValidateAccessMemberWritingFirst(v, accessMember) ==
    [bav |-> _setGroupMembershipKeyToAccessGroupMemberMapping(v, accessMember, PkA,
                 NewGroupKeyName(<<1>>)),
     err |-> "RuleErrorAccessMemberEncryptedKeyTooShort"]

\* A member check that takes an encrypted key of any length, to set against
\* ValidateAccessMember.
ValidateAccessMemberAnyLength(v, accessMember) ==
    LET r == GetAccessGroupKeyToAccessGroupEntryMapping(v,
                 NewAccessGroupKey(accessMember.GroupMemberPublicKey,
                                   accessMember.GroupMemberKeyName))
    IN IF r.val = Nil \/ r.val.isDeleted
       THEN [bav |-> r.bav, err |-> "RuleErrorAccessMemberKeyDoesntExist"]
       ELSE [bav |-> r.bav, err |-> NoError]

ValidateAccessMember(v, accessMember) ==
    IF Len(accessMember.EncryptedKey) < PrivKeyBytesLen
    THEN [bav |-> v, err |-> "RuleErrorAccessMemberEncryptedKeyTooShort"]
    ELSE IF ValidateGroupPublicKeyAndName(accessMember.GroupMemberPublicKey,
                                          accessMember.GroupMemberKeyName) # NoError
    THEN [bav |-> v,
          err |-> ValidateGroupPublicKeyAndName(accessMember.GroupMemberPublicKey,
                                                accessMember.GroupMemberKeyName)]
    ELSE LET r == GetAccessGroupKeyToAccessGroupEntryMapping(v,
                      NewAccessGroupKey(accessMember.GroupMemberPublicKey,
                                        accessMember.GroupMemberKeyName))
         IN IF r.val = Nil \/ r.val.isDeleted
            THEN [bav |-> r.bav, err |-> "RuleErrorAccessMemberKeyDoesntExist"]
            ELSE [bav |-> r.bav, err |-> NoError]

\* A pass over the existing members that carries none of them over, to set
\* against ExistingMembersLoop.
ForgetExistingMembers(existing, i, existingMembers, newAccessMembers) ==
    [err |-> NoError, existingMembers |-> existingMembers,
     newAccessMembers |-> newAccessMembers]

\* Before the access groups fork: the members already in the entry, none of
\* them twice and none the access public key.
RECURSIVE ExistingMembersLoop(_, _, _, _)
ExistingMembersLoop(existing, i, existingMembers, newAccessMembers) ==
    IF i > Len(existing)
    THEN [err |-> NoError, existingMembers |-> existingMembers,
          newAccessMembers |-> newAccessMembers]
    ELSE IF existing[i].GroupMemberPublicKey \in existingMembers
    THEN [err |-> "RuleErrorAccessMemberAlreadyExists",
          existingMembers |-> existingMembers, newAccessMembers |-> newAccessMembers]
    ELSE ExistingMembersLoop(existing, i + 1,
             existingMembers \cup {existing[i].GroupMemberPublicKey},
             Append(newAccessMembers, existing[i]))

\* Before the fork: each member of the transaction is validated and must not
\* be among the members seen so far.
RECURSIVE AddMembersLoopBeforeFork(_, _, _, _, _)
AddMembersLoopBeforeFork(v, members, i, existingMembers, newAccessMembers) ==
    IF i > Len(members)
    THEN [bav |-> v, err |-> NoError, newAccessMembers |-> newAccessMembers]
    ELSE LET r == ValidateAccessMember(v, members[i]) IN
         IF r.err # NoError
         THEN [bav |-> r.bav, err |-> r.err, newAccessMembers |-> newAccessMembers]
         ELSE IF members[i].GroupMemberPublicKey \in existingMembers
         THEN [bav |-> r.bav, err |-> "RuleErrorAccessMemberAlreadyExists",
               newAccessMembers |-> newAccessMembers]
         ELSE AddMembersLoopBeforeFork(r.bav, members, i + 1,
                  existingMembers \cup {members[i].GroupMemberPublicKey},
                  Append(newAccessMembers, members[i]))

\* From the fork on: each member of the transaction is validated.
RECURSIVE AddMembersLoop(_, _, _, _)
AddMembersLoop(v, members, i, newAccessMembers) ==
    IF i > Len(members)
    THEN [bav |-> v, err |-> NoError, newAccessMembers |-> newAccessMembers]
    ELSE LET r == ValidateAccessMember(v, members[i]) IN
         IF r.err # NoError
         THEN [bav |-> r.bav, err |-> r.err, newAccessMembers |-> newAccessMembers]
         ELSE AddMembersLoop(r.bav, members, i + 1, Append(newAccessMembers, members[i]))

\* A pass over the targets that takes every one of them, to set against
\* MuteMembersLoop.
MuteEveryTarget(v, existingEntry, members, i, newMuteList) ==
    [bav |-> v, err |-> NoError, list |-> members]

RECURSIVE MuteMembersLoop(_, _, _, _, _)
MuteMembersLoop(v, existingEntry, members, i, newMuteList) ==
    IF i > Len(members)
    THEN [bav |-> v, err |-> NoError, list |-> newMuteList]
    ELSE IF members[i].GroupMemberPublicKey = existingEntry.GroupOwnerPublicKey
    THEN [bav |-> v, err |-> "RuleErrorAccessGroupOwnerMutingSelf", list |-> newMuteList]
    ELSE LET r == GetAccessGroupMember(v, members[i].GroupMemberPublicKey,
                      existingEntry.GroupOwnerPublicKey, existingEntry.AccessGroupKeyName)
         IN IF r.val = Nil
            THEN [bav |-> r.bav, err |-> "RuleErrorAccessMemberNotInGroup",
                  list |-> newMuteList]
            ELSE LET attributeEntry == GetGroupMemberAttributeEntry(r.bav,
                         NewGroupEnumerationKey(existingEntry.GroupOwnerPublicKey,
                             existingEntry.AccessGroupKeyName, r.val.GroupMemberPublicKey),
                         AccessGroupMemberAttributeIsMuted)
                 IN IF attributeEntry # Nil /\ attributeEntry.IsSet
                    THEN [bav |-> r.bav, err |-> "RuleErrorAccessMemberAlreadyMuted",
                          list |-> newMuteList]
                    ELSE MuteMembersLoop(r.bav, existingEntry, members, i + 1,
                             Append(newMuteList, members[i]))

\* A pass over the targets that takes every one of them, to set against
\* UnmuteMembersLoop.
UnmuteEveryTarget(v, existingEntry, members, i, newUnmuteList) ==
    [bav |-> v, err |-> NoError, list |-> members]

RECURSIVE UnmuteMembersLoop(_, _, _, _, _)
UnmuteMembersLoop(v, existingEntry, members, i, newUnmuteList) ==
    IF i > Len(members)
    THEN [bav |-> v, err |-> NoError, list |-> newUnmuteList]
    ELSE LET r == GetAccessGroupMember(v, members[i].GroupMemberPublicKey,
                      existingEntry.GroupOwnerPublicKey, existingEntry.AccessGroupKeyName)
         IN IF r.val = Nil
            THEN [bav |-> r.bav, err |-> "RuleErrorAccessMemberNotInGroup",
                  list |-> newUnmuteList]
            ELSE IF members[i].GroupMemberPublicKey = existingEntry.GroupOwnerPublicKey
            THEN [bav |-> r.bav, err |-> "RuleErrorAccessGroupOwnerUnmutingSelf",
                  list |-> newUnmuteList]
            ELSE LET attributeEntry == GetGroupMemberAttributeEntry(r.bav,
                         NewGroupEnumerationKey(existingEntry.GroupOwnerPublicKey,
                             existingEntry.AccessGroupKeyName,
                             members[i].GroupMemberPublicKey),
                         AccessGroupMemberAttributeIsMuted)
                 IN IF attributeEntry = Nil \/ ~attributeEntry.IsSet
                    THEN [bav |-> r.bav, err |-> "RuleErrorAccessMemberAlreadyUnmuted",
                          list |-> newUnmuteList]
                    ELSE UnmuteMembersLoop(r.bav, existingEntry, members, i + 1,
                             Append(newUnmuteList, members[i]))

\* The switch on the operation: the view after its reads, the error, and the
\* three lists it builds.  "accepted" is FALSE in the default case, which
\* returns what errors.Wrapf makes of a nil error: no error at all.
CreateOperationSwitch(v, txn, blockHeight, accessGroupOperation, existingEntry, accessPublicKey) ==
    LET none == [bav |-> v, err |-> NoError, done |-> FALSE,
                 newAccessMembers |-> <<>>, newMuteList |-> <<>>, newUnmuteList |-> <<>>]
    IN
    CASE accessGroupOperation = "AccessGroupOperationAddMembers" ->
           IF blockHeight < DeSoAccessGroupsBlockHeight
           THEN IF IsLive(existingEntry) /\ Len(txn.AccessGroupMembers) = 0
                THEN [none EXCEPT !.err = "RuleErrorAccessKeyDoesntAddMembers"]
                ELSE LET old == IF IsLive(existingEntry)
                                THEN ExistingMembersLoop(
                                         existingEntry.DEPRECATED_AccessGroupMembers, 1,
                                         {accessPublicKey}, <<>>)
                                ELSE [err |-> NoError, existingMembers |-> {accessPublicKey},
                                      newAccessMembers |-> <<>>]
                     IN IF old.err # NoError
                        THEN [none EXCEPT !.err = old.err]
                        ELSE LET r == AddMembersLoopBeforeFork(v, txn.AccessGroupMembers, 1,
                                          old.existingMembers, old.newAccessMembers)
                             IN [none EXCEPT !.bav = r.bav, !.err = r.err,
                                             !.newAccessMembers = r.newAccessMembers]
           ELSE LET r == AddMembersLoop(v, txn.AccessGroupMembers, 1, <<>>)
                IN [none EXCEPT !.bav = r.bav, !.err = r.err,
                                !.newAccessMembers = r.newAccessMembers]
      [] accessGroupOperation = "AccessGroupOperationMuteMembers" ->
           IF ~IsLive(existingEntry)
           THEN [none EXCEPT !.err = "RuleErrorAccessGroupDoesntExist"]
           ELSE LET r == MuteMembersLoop(v, existingEntry, txn.AccessGroupMembers, 1, <<>>)
                IN [none EXCEPT !.bav = r.bav, !.err = r.err, !.newMuteList = r.list]
      [] accessGroupOperation = "AccessGroupOperationUnmuteMembers" ->
           IF ~IsLive(existingEntry)
           THEN [none EXCEPT !.err = "RuleErrorAccessGroupDoesntExist"]
           ELSE LET r == UnmuteMembersLoop(v, existingEntry, txn.AccessGroupMembers, 1, <<>>)
                IN [none EXCEPT !.bav = r.bav, !.err = r.err, !.newUnmuteList = r.list]
      [] OTHER -> [none EXCEPT !.done = TRUE]

\* A pass over a mute or unmute list that writes no attribute, to set against
\* SetMutedLoop.
SkipSetMuted(v, accessGroupEntry, list, i, isSet) == v

RECURSIVE SetMutedLoop(_, _, _, _, _)
SetMutedLoop(v, accessGroupEntry, list, i, isSet) ==
    IF i > Len(list) THEN v
    ELSE SetMutedLoop(
             _setGroupMemberAttributeMapping(v,
                 NewGroupEnumerationKey(accessGroupEntry.GroupOwnerPublicKey,
                     accessGroupEntry.AccessGroupKeyName, list[i].GroupMemberPublicKey),
                 AccessGroupMemberAttributeIsMuted, NewAttributeEntry(isSet, <<>>)),
             accessGroupEntry, list, i + 1, isSet)

\* Everything after the basic transfer: the reads of the view, the checks
\* against it and, when they all pass, the writes and the operation record.
\* Extra data taken from whatever entry is there, tombstoned or not, to set
\* against ExistingExtraData.
ExtraDataOfAnyEntry(existingEntry) ==
    IF existingEntry = Nil THEN {} ELSE existingEntry.ExtraData

\* The extra data the merge starts from: that of a live existing entry.
ExistingExtraData(existingEntry) ==
    IF IsLive(existingEntry) THEN existingEntry.ExtraData ELSE {}

CreateAfterBasicTransfer(v, txn, blockHeight) ==
    LET accessGroupKey ==
            ResolveAccessGroupKey(txn.PublicKey, txn.AccessPublicKey, txn.AccessGroupKeyName)
        accessPublicKey == ResolveAccessPublicKey(txn.AccessPublicKey, txn.AccessGroupKeyName)
        got == GetAccessGroupKeyToAccessGroupEntryMapping(v, accessGroupKey)
        existingEntry == got.val
        operation == IF blockHeight < DeSoAccessGroupsBlockHeight
                     THEN [val |-> "AccessGroupOperationAddMembers", err |-> NoError]
                     ELSE GetAccessGroupOperation(txn)
    IN
    IF operation.err # NoError
    THEN ConnectResult(got.bav, operation.err, <<>>, "connected")
    ELSE IF IsLive(existingEntry) /\ AccessPublicKeyDiffers(existingEntry, accessPublicKey)
    THEN ConnectResult(got.bav, "RuleErrorAccessPublicKeyCannotBeDifferent", <<>>, "connected")
    ELSE
    LET sw == CreateOperationSwitch(got.bav, txn, blockHeight, operation.val,
                                    existingEntry, accessPublicKey)
    IN
    IF sw.done \/ sw.err # NoError
    THEN ConnectResult(sw.bav, sw.err, <<>>, "connected")
    ELSE
    LET extraData ==
            IF blockHeight >= ExtraDataOnEntriesBlockHeight
            THEN mergeExtraData(ExistingExtraData(existingEntry), txn.ExtraData)
            ELSE {}
        accessGroupEntry ==
            NewAccessGroupEntry(accessGroupKey[1], accessPublicKey,
                NewGroupKeyName(txn.AccessGroupKeyName), sw.newAccessMembers, extraData)
        prevAccessGroupEntry ==
            IF IsLive(existingEntry)
            THEN DecodeFromBytes(EncodeToBytes(existingEntry))
            ELSE Nil
        muted == IF blockHeight >= DeSoAccessGroupsBlockHeight
                 THEN SetMutedLoop(
                          SetMutedLoop(sw.bav, accessGroupEntry, sw.newMuteList, 1, TRUE),
                          accessGroupEntry, sw.newUnmuteList, 1, FALSE)
                 ELSE sw.bav
    IN ConnectResult(
           _setAccessGroupKeyToAccessGroupEntryMapping(muted, accessGroupKey[1],
                                                       accessGroupEntry),
           NoError,
           Append(BasicTransferOps,
                  [Type |-> "OperationTypeCreateAccessGroup",
                   PrevAccessKeyEntry |-> prevAccessGroupEntry]),
           "connected")

\* A connect that leaves out the checks of the name and the keys, to set
\* against _connectAccessGroupCreate.
ConnectAccessGroupCreateUnchecked(v, txn, blockHeight, basicOk) ==
    IF blockHeight < DeSoV3MessagesBlockHeight
    THEN ConnectResult(v, "RuleErrorAccessKeyBeforeBlockHeight", <<>>, "none")
    ELSE IF ~basicOk
    THEN ConnectResult(v, "_connectBasicTransfer", <<>>, "failed")
    ELSE CreateAfterBasicTransfer(v, txn, blockHeight)

_connectAccessGroupCreate(v, txn, blockHeight, basicOk) ==
    IF blockHeight < DeSoV3MessagesBlockHeight
    THEN ConnectResult(v, "RuleErrorAccessKeyBeforeBlockHeight", <<>>, "none")
    ELSE IF txn.TxnType # "TxnTypeCreateAccessGroup"
    THEN ConnectResult(v, "bad TxnType", <<>>, "none")
    ELSE IF EqualGroupKeyName(NewGroupKeyName(txn.AccessGroupKeyName), BaseGroupKeyName)
    THEN ConnectResult(v, "RuleErrorAccessKeyNameCannotBeZeros", <<>>, "none")
    ELSE IF ValidateGroupPublicKeyAndName(txn.AccessPublicKey, txn.AccessGroupKeyName) # NoError
    THEN ConnectResult(v,
             ValidateGroupPublicKeyAndName(txn.AccessPublicKey, txn.AccessGroupKeyName),
             <<>>, "none")
    ELSE IF IsByteArrayValidPublicKey(txn.PublicKey) # NoError
    THEN ConnectResult(v, IsByteArrayValidPublicKey(txn.PublicKey), <<>>, "none")
    ELSE IF txn.AccessPublicKey = txn.PublicKey
    THEN ConnectResult(v, "RuleErrorAccessPublicKeyCannotBeOwnerKey", <<>>, "none")
    ELSE IF ~basicOk
    THEN ConnectResult(v, "_connectBasicTransfer", <<>>, "failed")
    ELSE CreateAfterBasicTransfer(v, txn, blockHeight)

----------------------------------------------------------------------------
(* _disconnectAccessGroupCreate *)

DisconnectResult(v, err) == [bav |-> v, err |-> err]

\* _disconnectBasicTransfer, handed the operations before the last one.
_disconnectBasicTransfer(v, utxoOps) ==
    IF \E i \in DOMAIN utxoOps : utxoOps[i].Type # "OperationTypeSpendUtxo"
    THEN DisconnectResult(v, "_disconnectBasicTransfer: not an operation of the basic transfer")
    ELSE DisconnectResult(v, NoError)

\* A disconnect that does not compare the recorded previous entry with the
\* current one, to set against _disconnectAccessGroupCreate.
DisconnectAccessGroupCreateUncompared(v, operationType, currentTxn, utxoOpsForTxn) ==
    IF Len(utxoOpsForTxn) = 0
    THEN DisconnectResult(v, "utxoOperations are missing")
    ELSE IF utxoOpsForTxn[Len(utxoOpsForTxn)].Type # "OperationTypeCreateAccessGroup"
    THEN DisconnectResult(v, "bad operation type")
    ELSE IF currentTxn.TxnType # "TxnTypeCreateAccessGroup"
    THEN DisconnectResult(v, "bad TxnType")
    ELSE IF ValidateGroupPublicKeyAndName(currentTxn.AccessPublicKey,
                                          currentTxn.AccessGroupKeyName) # NoError
    THEN DisconnectResult(v, ValidateGroupPublicKeyAndName(currentTxn.AccessPublicKey,
                                                          currentTxn.AccessGroupKeyName))
    ELSE
    LET accessKey == ResolveAccessGroupKey(currentTxn.PublicKey, currentTxn.AccessPublicKey,
                                           currentTxn.AccessGroupKeyName)
        got == GetAccessGroupKeyToAccessGroupEntryMapping(v, accessKey)
        accessKeyEntry == got.val
        prevAccessKeyEntry == utxoOpsForTxn[Len(utxoOpsForTxn)].PrevAccessKeyEntry
    IN
    IF accessKeyEntry = Nil \/ accessKeyEntry.isDeleted
    THEN DisconnectResult(got.bav, "this key was already deleted")
    ELSE
    LET deleted == _deleteAccessGroupKeyToAccessGroupEntryMapping(got.bav, accessKey[1],
                                                                  accessKeyEntry)
        restored == IF prevAccessKeyEntry # Nil
                    THEN _setAccessGroupKeyToAccessGroupEntryMapping(deleted, accessKey[1],
                                                                     prevAccessKeyEntry)
                    ELSE deleted
    IN _disconnectBasicTransfer(restored, SubSeq(utxoOpsForTxn, 1, Len(utxoOpsForTxn) - 1))

_disconnectAccessGroupCreate(v, operationType, currentTxn, utxoOpsForTxn) ==
    IF Len(utxoOpsForTxn) = 0
    THEN DisconnectResult(v, "utxoOperations are missing")
    ELSE IF utxoOpsForTxn[Len(utxoOpsForTxn)].Type # "OperationTypeCreateAccessGroup"
    THEN DisconnectResult(v, "bad operation type")
    ELSE IF currentTxn.TxnType # "TxnTypeCreateAccessGroup"
    THEN DisconnectResult(v, "bad TxnType")
    ELSE IF ValidateGroupPublicKeyAndName(currentTxn.AccessPublicKey,
                                          currentTxn.AccessGroupKeyName) # NoError
    THEN DisconnectResult(v, ValidateGroupPublicKeyAndName(currentTxn.AccessPublicKey,
                                                          currentTxn.AccessGroupKeyName))
    ELSE
    LET accessKey == ResolveAccessGroupKey(currentTxn.PublicKey, currentTxn.AccessPublicKey,
                                           currentTxn.AccessGroupKeyName)
        got == GetAccessGroupKeyToAccessGroupEntryMapping(v, accessKey)
        accessKeyEntry == got.val
        prevAccessKeyEntry == utxoOpsForTxn[Len(utxoOpsForTxn)].PrevAccessKeyEntry
    IN
    IF accessKeyEntry = Nil \/ accessKeyEntry.isDeleted
    THEN DisconnectResult(got.bav, "this key was already deleted")
    ELSE IF prevAccessKeyEntry # Nil
            /\ (\/ accessKeyEntry.AccessPublicKey # prevAccessKeyEntry.AccessPublicKey
                \/ accessKeyEntry.GroupOwnerPublicKey # prevAccessKeyEntry.GroupOwnerPublicKey
                \/ ~EqualGroupKeyName(accessKeyEntry.AccessGroupKeyName,
                                      prevAccessKeyEntry.AccessGroupKeyName))
    THEN DisconnectResult(got.bav, "this key was already deleted")
    ELSE
    LET deleted == _deleteAccessGroupKeyToAccessGroupEntryMapping(got.bav, accessKey[1],
                                                                  accessKeyEntry)
        restored == IF prevAccessKeyEntry # Nil
                    THEN _setAccessGroupKeyToAccessGroupEntryMapping(deleted, accessKey[1],
                                                                     prevAccessKeyEntry)
                    ELSE deleted
    IN _disconnectBasicTransfer(restored, SubSeq(utxoOpsForTxn, 1, Len(utxoOpsForTxn) - 1))

----------------------------------------------------------------------------
(* _connectAccessGroupMembers *)

RECURSIVE MembersAddLoop(_, _, _, _)
MembersAddLoop(v, members, i, newAccessMembers) ==
    IF i > Len(members)
    THEN [bav |-> v, err |-> NoError, newAccessMembers |-> newAccessMembers]
    ELSE LET r == ValidateAccessMember(v, members[i]) IN
         IF r.err # NoError
         THEN [bav |-> r.bav, err |-> r.err, newAccessMembers |-> newAccessMembers]
         ELSE MembersAddLoop(r.bav, members, i + 1, Append(newAccessMembers, members[i]))

\* A pass over the new members that writes none of them, to set against
\* SetAccessGroupMembersLoop.
SkipSetAccessGroupMembers(v, existingEntry, members, i) == v

RECURSIVE SetAccessGroupMembersLoop(_, _, _, _)
SetAccessGroupMembersLoop(v, existingEntry, newAccessMembers, i) ==
    IF i > Len(newAccessMembers) THEN v
    ELSE SetAccessGroupMembersLoop(
             _setAccessGroupMember(v, existingEntry.GroupOwnerPublicKey,
                                   existingEntry.AccessGroupKeyName, newAccessMembers[i]),
             existingEntry, newAccessMembers, i + 1)

\* A connect that adds the listed members whatever the operation type of the
\* transaction, to set against MembersAfterBasicTransfer.
MembersAddedWhateverOperation(v, txn, blockHeight) ==
    LET got == GetAccessGroupKeyToAccessGroupEntryMapping(v,
                   ResolveAccessGroupKey(txn.PublicKey, txn.AccessPublicKey,
                                         txn.AccessGroupKeyName))
    IN IF got.val = Nil \/ got.val.isDeleted
       THEN ConnectResult(got.bav, "RuleErrorAccessKeyDoesntExist", <<>>, "connected")
       ELSE ConnectResult(
                SetAccessGroupMembersLoop(got.bav, got.val, txn.AccessGroupMembers, 1),
                NoError,
                Append(BasicTransferOps,
                       [Type |-> "OperationTypeAccessGroupMembers",
                        PrevAccessGroupMembers |-> txn.AccessGroupMembers]),
                "connected")

MembersAfterBasicTransfer(v, txn, blockHeight) ==
    LET accessGroupKey ==
            ResolveAccessGroupKey(txn.PublicKey, txn.AccessPublicKey, txn.AccessGroupKeyName)
        accessPublicKey == ResolveAccessPublicKey(txn.AccessPublicKey, txn.AccessGroupKeyName)
        got == GetAccessGroupKeyToAccessGroupEntryMapping(v, accessGroupKey)
        existingEntry == got.val
    IN
    IF existingEntry = Nil \/ existingEntry.isDeleted
    THEN ConnectResult(got.bav, "RuleErrorAccessKeyDoesntExist", <<>>, "connected")
    ELSE IF AccessPublicKeyDiffers(existingEntry, accessPublicKey)
    THEN ConnectResult(got.bav, "RuleErrorAccessPublicKeyCannotBeDifferent", <<>>, "connected")
    ELSE IF txn.AccessGroupMemberOperationType = "AccessGroupMemberOperationTypeAdd"
    THEN LET r == MembersAddLoop(got.bav, txn.AccessGroupMembers, 1, <<>>) IN
         IF r.err # NoError
         THEN ConnectResult(r.bav, r.err, <<>>, "connected")
         ELSE ConnectResult(
                  SetAccessGroupMembersLoop(r.bav, existingEntry, r.newAccessMembers, 1),
                  NoError,
                  Append(BasicTransferOps,
                         [Type |-> "OperationTypeAccessGroupMembers",
                          PrevAccessGroupMembers |-> r.newAccessMembers]),
                  "connected")
    ELSE ConnectResult(got.bav, "RuleErrorAccessGroupMemberOperationTypeNotSupported",
                       <<>>, "connected")

\* A connect without the height gate and the checks of the name and the
\* keys, to set against _connectAccessGroupMembers.
ConnectAccessGroupMembersUngated(v, txn, blockHeight, basicOk) ==
    IF ~basicOk
    THEN ConnectResult(v, "_connectBasicTransfer", <<>>, "failed")
    ELSE MembersAfterBasicTransfer(v, txn, blockHeight)

_connectAccessGroupMembers(v, txn, blockHeight, basicOk) ==
    IF blockHeight < DeSoV3MessagesBlockHeight
    THEN ConnectResult(v, "RuleErrorAccessGroupsBeforeBlockHeight", <<>>, "none")
    ELSE IF txn.TxnType # "TxnTypeAccessGroupMembers"
    THEN ConnectResult(v, "bad TxnType", <<>>, "none")
    ELSE IF EqualGroupKeyName(NewGroupKeyName(txn.AccessGroupKeyName), BaseGroupKeyName)
    THEN ConnectResult(v, "RuleErrorAccessKeyNameCannotBeZeros", <<>>, "none")
    ELSE IF ValidateGroupPublicKeyAndName(txn.AccessPublicKey, txn.AccessGroupKeyName) # NoError
    THEN ConnectResult(v,
             ValidateGroupPublicKeyAndName(txn.AccessPublicKey, txn.AccessGroupKeyName),
             <<>>, "none")
    ELSE IF IsByteArrayValidPublicKey(txn.PublicKey) # NoError
    THEN ConnectResult(v, IsByteArrayValidPublicKey(txn.PublicKey), <<>>, "none")
    ELSE IF txn.AccessPublicKey = txn.PublicKey
    THEN ConnectResult(v, "RuleErrorAccessPublicKeyCannotBeOwnerKey", <<>>, "none")
    ELSE IF ~basicOk
    THEN ConnectResult(v, "_connectBasicTransfer", <<>>, "failed")
    ELSE MembersAfterBasicTransfer(v, txn, blockHeight)

----------------------------------------------------------------------------
(* _disconnectAccessGroupMembers *)

RECURSIVE BytesLess(_, _)
BytesLess(a, b) ==
    IF Len(b) = 0 THEN FALSE
    ELSE IF Len(a) = 0 THEN TRUE
    ELSE IF a[1] # b[1] THEN a[1] < b[1]
    ELSE BytesLess(Tail(a), Tail(b))

RECURSIVE InsertAccessGroupMember(_, _)
InsertAccessGroupMember(sorted, m) ==
    IF Len(sorted) = 0 THEN <<m>>
    ELSE IF BytesLess(m.GroupMemberPublicKey, sorted[1].GroupMemberPublicKey)
    THEN <<m>> \o sorted
    ELSE <<sorted[1]>> \o InsertAccessGroupMember(Tail(sorted), m)

\* sortAccessGroupMembers: the members in the order of their public keys.
RECURSIVE sortAccessGroupMembers(_)
sortAccessGroupMembers(members) ==
    IF Len(members) = 0 THEN <<>>
    ELSE InsertAccessGroupMember(
             sortAccessGroupMembers(SubSeq(members, 1, Len(members) - 1)),
             members[Len(members)])

\* The loop over the members: each one is checked against the recorded one,
\* tombstoned, and the recorded one (never nil) is set back.
RECURSIVE DisconnectMembersLoop(_, _, _, _, _, _)
DisconnectMembersLoop(v, groupOwnerPublicKey, name, accessGroupMembers, prevAccessGroupMembers, ii) ==
    IF ii > Len(accessGroupMembers) THEN DisconnectResult(v, NoError)
    ELSE
    LET accessMember == accessGroupMembers[ii]
        prev == prevAccessGroupMembers[ii]
    IN
    IF accessMember = Nil \/ accessMember.isDeleted
    THEN DisconnectResult(v, "found nil or deleted accessMember")
    ELSE IF prev # Nil
            /\ (\/ accessMember.GroupMemberPublicKey # prev.GroupMemberPublicKey
                \/ accessMember.GroupMemberKeyName # prev.GroupMemberKeyName
                \/ accessMember.EncryptedKey # prev.EncryptedKey)
    THEN DisconnectResult(v, "this member was already deleted")
    ELSE
    LET deleted == _deleteAccessGroupMember(v, accessMember, groupOwnerPublicKey,
                                            NewGroupKeyName(name))
        restored == IF prev # Nil
                    THEN _setAccessGroupMember(deleted, groupOwnerPublicKey,
                                               NewGroupKeyName(name), prev)
                    ELSE deleted
    IN DisconnectMembersLoop(restored, groupOwnerPublicKey, name, accessGroupMembers,
                             prevAccessGroupMembers, ii + 1)

_disconnectAccessGroupMembers(v, operationType, currentTxn, utxoOpsForTxn) ==
    IF Len(utxoOpsForTxn) = 0
    THEN DisconnectResult(v, "no operations")
    ELSE IF utxoOpsForTxn[Len(utxoOpsForTxn)].Type # "OperationTypeAccessGroupMembers"
            \/ operationType # "OperationTypeAccessGroupMembers"
    THEN DisconnectResult(v, "bad operation type")
    ELSE IF currentTxn.TxnType # "TxnTypeAccessGroupMembers"
    THEN DisconnectResult(v, "bad TxnType")
    ELSE IF ValidateGroupPublicKeyAndName(currentTxn.AccessPublicKey,
                                          currentTxn.AccessGroupKeyName) # NoError
    THEN DisconnectResult(v, ValidateGroupPublicKeyAndName(currentTxn.AccessPublicKey,
                                                          currentTxn.AccessGroupKeyName))
    ELSE
    LET groupOwnerPublicKey == currentTxn.PublicKey
        accessGroupMembers == sortAccessGroupMembers(currentTxn.AccessGroupMembers)
        prevAccessGroupMembers ==
            sortAccessGroupMembers(utxoOpsForTxn[Len(utxoOpsForTxn)].PrevAccessGroupMembers)
    IN
    IF Len(accessGroupMembers) # Len(prevAccessGroupMembers)
    THEN DisconnectResult(v, "different number of members")
    ELSE LET r == DisconnectMembersLoop(v, groupOwnerPublicKey, currentTxn.AccessGroupKeyName,
                      accessGroupMembers, prevAccessGroupMembers, 1)
         IN IF r.err # NoError THEN r
            ELSE _disconnectBasicTransfer(r.bav,
                     SubSeq(utxoOpsForTxn, 1, Len(utxoOpsForTxn) - 1))

----------------------------------------------------------------------------
(* _connectAccessGroupAttributes *)

\* reflect.DeepEqual on two values with their dynamic types: values of
\* distinct types are never deeply equal.
reflect_DeepEqual(x, y) == x.type = y.type /\ x.val = y.val

\* An owner test that passes everyone, to set against IsGroupOwnerOfHolderKey.
EveryoneIsGroupOwner(groupOwnerPublicKey, txnPublicKey) == TRUE

\* The owner test of the attributes transaction: the address of the owner
\* field of the holder key against the public key bytes of the transaction.
IsGroupOwnerOfHolderKey(groupOwnerPublicKey, txnPublicKey) ==
    reflect_DeepEqual([type |-> "*PublicKey", val |-> groupOwnerPublicKey],
                      [type |-> "[]byte", val |-> txnPublicKey])

\* The owner named by the holder key: the first part of either key shape.
HolderKeyOwner(attributeHolderKey) == attributeHolderKey.key[1]

AttributesOperation(txn, holder) ==
    [Type |-> "OperationTypeAccessGroupAttributes",
     PrevAccessGroupAttributeHolder |-> holder,
     PrevAttributeHolderKey |-> txn.AttributeHolderKey,
     PrevAccessGroupAttributeOperationType |-> txn.AccessGroupAttributeOperationType,
     PrevAttributeType |-> txn.AttributeType,
     PrevAttributeValue |-> txn.AttributeValue]

\* The inner switch on the operation type, for a member or a group holder.
AttributesOperationSwitch(v, txn, utxoOpsForTxn, holder) ==
    LET set(isSet) ==
            IF holder = "AccessGroupAttributeHolderMember"
            THEN _setGroupMemberAttributeMapping(v, txn.AttributeHolderKey.key,
                     txn.AttributeType, NewAttributeEntry(isSet, txn.AttributeValue))
            ELSE _setGroupEntryAttributeMapping(v, txn.AttributeHolderKey.key,
                     txn.AttributeType, NewAttributeEntry(isSet, txn.AttributeValue))
    IN
    CASE txn.AccessGroupAttributeOperationType = "AccessGroupAttributeOperationTypeAdd" ->
           ConnectResult(set(TRUE), NoError,
                         Append(utxoOpsForTxn, AttributesOperation(txn, holder)), "connected")
      [] txn.AccessGroupAttributeOperationType = "AccessGroupAttributeOperationTypeRemove" ->
           ConnectResult(set(FALSE), NoError,
                         Append(utxoOpsForTxn, AttributesOperation(txn, holder)), "connected")
      [] OTHER ->
           ConnectResult(v, "RuleErrorAccessGroupAttributesInvalidOperationType",
                         <<>>, "connected")

\* The outer switch on the dynamic type of the holder key.
AttributesHolderSwitch(v, txn, utxoOpsForTxn) ==
    LET holder == IF txn.AttributeHolderKey.type = "*GroupEnumerationKey"
                  THEN "AccessGroupAttributeHolderMember"
                  ELSE "AccessGroupAttributeHolderGroup"
    IN
    IF txn.AttributeHolderKey.type \notin {"*GroupEnumerationKey", "*AccessGroupKey"}
    THEN ConnectResult(v, "bad AttributeHolderType", <<>>, "connected")
    ELSE IF txn.AccessGroupAttributeHolder # holder
    THEN ConnectResult(v, "RuleErrorAccessGroupAttributesInvalidAttributeHolder",
                       <<>>, "connected")
    ELSE IF ~IsGroupOwnerOfHolderKey(HolderKeyOwner(txn.AttributeHolderKey), txn.PublicKey)
    THEN ConnectResult(v, "RuleErrorAccessGroupAttributesOperationDenied", <<>>, "connected")
    ELSE AttributesOperationSwitch(v, txn, utxoOpsForTxn, holder)

_connectAccessGroupAttributes(v, txn, blockHeight, basicOk) ==
    IF blockHeight < DeSoV3MessagesBlockHeight
    THEN ConnectResult(v, "RuleErrorAccessGroupsBeforeBlockHeight", <<>>, "none")
    ELSE IF txn.TxnType # "TxnTypeAccessGroupAttributes"
    THEN ConnectResult(v, "bad TxnType", <<>>, "none")
    ELSE IF ~basicOk
    THEN ConnectResult(v, "_connectBasicTransfer", <<>>, "failed")
    ELSE AttributesHolderSwitch(v, txn, BasicTransferOps)

----------------------------------------------------------------------------
(* _disconnectAccessGroupAttributes *)

\* The switch on the recorded holder key and, inside it, on the recorded
\* operation type.
DisconnectAttributesSwitch(v, txn, prevUtxoOp) ==
    LET prevKey == prevUtxoOp.PrevAttributeHolderKey
        isMember == prevKey.type = "*GroupEnumerationKey"
        attributeEntry == NewAttributeEntry(TRUE, prevUtxoOp.PrevAttributeValue)
    IN
    IF prevKey.type \notin {"*GroupEnumerationKey", "*AccessGroupKey"}
    THEN DisconnectResult(v, "AttributeHolderKey is not AccessGroupKey or GroupEnumerationKey")
    ELSE IF prevUtxoOp.PrevAccessGroupAttributeHolder #
                (IF isMember THEN "AccessGroupAttributeHolderMember"
                             ELSE "AccessGroupAttributeHolderGroup")
    THEN DisconnectResult(v, "AttributeHolder does not match the attribute holder key")
    ELSE IF prevKey.key # txn.AttributeHolderKey.key
    THEN DisconnectResult(v, "holder key doesn't match")
    ELSE
    CASE prevUtxoOp.PrevAccessGroupAttributeOperationType
             = "AccessGroupAttributeOperationTypeAdd" ->
           DisconnectResult(
               IF isMember
               THEN _deleteGroupMemberAttributeMapping(v, prevKey.key,
                        prevUtxoOp.PrevAttributeType, attributeEntry)
               ELSE _deleteGroupEntryAttributeMapping(v, prevKey.key,
                        prevUtxoOp.PrevAttributeType, attributeEntry),
               NoError)
      [] prevUtxoOp.PrevAccessGroupAttributeOperationType
             = "AccessGroupAttributeOperationTypeRemove" ->
           DisconnectResult(
               IF isMember
               THEN _setGroupMemberAttributeMapping(v, prevKey.key,
                        prevUtxoOp.PrevAttributeType, attributeEntry)
               ELSE _setGroupEntryAttributeMapping(v, prevKey.key,
                        prevUtxoOp.PrevAttributeType, attributeEntry),
               NoError)
      [] OTHER -> DisconnectResult(v, "OperationType is invalid")

_disconnectAccessGroupAttributes(v, operationType, currentTxn, utxoOpsForTxn) ==
    IF Len(utxoOpsForTxn) = 0
    THEN DisconnectResult(v, "utxoOperations are missing")
    ELSE IF utxoOpsForTxn[Len(utxoOpsForTxn)].Type # "OperationTypeAccessGroupAttributes"
            \/ operationType # "OperationTypeAccessGroupAttributes"
    THEN DisconnectResult(v, "bad operation type")
    ELSE
    LET prevUtxoOp == utxoOpsForTxn[Len(utxoOpsForTxn)] IN
    IF currentTxn.AccessGroupAttributeHolder # prevUtxoOp.PrevAccessGroupAttributeHolder
    THEN DisconnectResult(v, "AccessGroupAttributeHolder doesn't match")
    ELSE IF currentTxn.AccessGroupAttributeOperationType #
                prevUtxoOp.PrevAccessGroupAttributeOperationType
    THEN DisconnectResult(v, "AccessGroupAttributeOperationType doesn't match")
    ELSE IF currentTxn.AttributeType # prevUtxoOp.PrevAttributeType
    THEN DisconnectResult(v, "AttributeType doesn't match")
    ELSE IF currentTxn.AttributeValue # prevUtxoOp.PrevAttributeValue
    THEN DisconnectResult(v, "AttributeValue doesn't match")
    ELSE LET r == DisconnectAttributesSwitch(v, currentTxn, prevUtxoOp) IN
         IF r.err # NoError THEN r
         ELSE _disconnectBasicTransfer(r.bav,
                  SubSeq(utxoOpsForTxn, 1, Len(utxoOpsForTxn) - 1))

----------------------------------------------------------------------------
(* The messaging group revision of the engine: _connectMessagingGroup and *)
(* _disconnectMessagingGroup over the same maps of the view.  A member    *)
(* carries its IsMuted flag; the member list of an entry is the list that *)
(* NewAccessGroupEntry is given.                                          *)

NewMessagingMember(pk, name, encryptedKey, isMuted) ==
    [GroupMemberPublicKey |-> pk, GroupMemberKeyName |-> name,
     EncryptedKey |-> encryptedKey, IsMuted |-> isMuted, isDeleted |-> FALSE]

\* DefaultGroupKeyName: the padded bytes of "default-key".
DefaultGroupKeyName == NewGroupKeyName(<<100, 101, 102>>)

\* _verifyBytesSignature: nil when the owner signed the key and the name.
_verifyBytesSignature(txn) ==
    IF txn.GroupOwnerSignature = "signed" THEN NoError
    ELSE "RuleErrorMessagingSignatureInvalid"

_setMessagingGroupKeyToMessagingGroupEntryMapping(v, ownerPublicKey, messagingGroupEntry) ==
    IF messagingGroupEntry = Nil THEN v
    ELSE [v EXCEPT !.AccessGroupKeyToAccessGroupEntry =
            MapSet(@, <<ownerPublicKey, messagingGroupEntry.AccessGroupKeyName>>,
                   messagingGroupEntry)]

_deleteMessagingGroupKeyToMessagingGroupEntryMapping(v, ownerPublicKey, messagingGroupEntry) ==
    _setMessagingGroupKeyToMessagingGroupEntryMapping(v, ownerPublicKey,
        [messagingGroupEntry EXCEPT !.isDeleted = TRUE])

GetMessagingGroupKeyToMessagingGroupEntryMapping(v, messagingGroupKey) ==
    IF EqualGroupKeyName(messagingGroupKey[2], BaseGroupKeyName)
    THEN [bav |-> v,
          val |-> [GroupOwnerPublicKey |-> messagingGroupKey[1],
                   AccessPublicKey |-> messagingGroupKey[1],
                   AccessGroupKeyName |-> BaseGroupKeyName,
                   DEPRECATED_AccessGroupMembers |-> <<>>,
                   ExtraData |-> {},
                   isDeleted |-> FALSE]]
    ELSE IF messagingGroupKey \in DOMAIN v.AccessGroupKeyToAccessGroupEntry
    THEN [bav |-> v, val |-> v.AccessGroupKeyToAccessGroupEntry[messagingGroupKey]]
    ELSE LET messagingGroupEntry == DBGetAccessGroupEntry(messagingGroupKey) IN
         IF messagingGroupEntry # Nil
         THEN [bav |-> _setMessagingGroupKeyToMessagingGroupEntryMapping(
                           v, messagingGroupKey[1], messagingGroupEntry),
               val |-> messagingGroupEntry]
         ELSE [bav |-> v, val |-> Nil]

\* GetMessagingMember: the overlay, then the durable store; nothing is cached.
GetMessagingMember(v, memberPublicKey, groupOwnerPublicKey, groupKeyName) ==
    LET groupMembershipKey == <<memberPublicKey, groupOwnerPublicKey, groupKeyName>> IN
    IF groupMembershipKey \in DOMAIN v.GroupMembershipKeyToAccessGroupMember
    THEN v.GroupMembershipKeyToAccessGroupMember[groupMembershipKey]
    ELSE DBGetMemberFromMembershipIndex(memberPublicKey, groupOwnerPublicKey, groupKeyName)

_setGroupMembershipKeyToMessagingGroupMemberMapping(v, entry, member) ==
    IF entry = Nil \/ member = Nil THEN v
    ELSE [v EXCEPT !.GroupMembershipKeyToAccessGroupMember =
            MapSet(@, <<member.GroupMemberPublicKey, entry.GroupOwnerPublicKey,
                        entry.AccessGroupKeyName>>, member)]

SetMessagingMember(v, messagingGroupEntry, messagingGroupMember) ==
    _setGroupMembershipKeyToMessagingGroupMemberMapping(v, messagingGroupEntry,
                                                        messagingGroupMember)

ValidateMessagingMember(v, messagingMember) ==
    IF Len(messagingMember.EncryptedKey) < PrivKeyBytesLen
    THEN [bav |-> v, err |-> "RuleErrorMessagingMemberEncryptedKeyTooShort"]
    ELSE IF ValidateGroupPublicKeyAndName(messagingMember.GroupMemberPublicKey,
                                          messagingMember.GroupMemberKeyName) # NoError
    THEN [bav |-> v,
          err |-> ValidateGroupPublicKeyAndName(messagingMember.GroupMemberPublicKey,
                                                messagingMember.GroupMemberKeyName)]
    ELSE LET r == GetMessagingGroupKeyToMessagingGroupEntryMapping(v,
                      NewAccessGroupKey(messagingMember.GroupMemberPublicKey,
                                        messagingMember.GroupMemberKeyName))
         IN IF r.val = Nil \/ r.val.isDeleted
            THEN [bav |-> r.bav, err |-> "RuleErrorMessagingMemberKeyDoesntExist"]
            ELSE [bav |-> r.bav, err |-> NoError]

RECURSIVE ExistingMessagingMembersLoop(_, _, _, _)
ExistingMessagingMembersLoop(existing, i, existingMembers, newMessagingMembers) ==
    IF i > Len(existing)
    THEN [err |-> NoError, existingMembers |-> existingMembers,
          newMessagingMembers |-> newMessagingMembers]
    ELSE IF existing[i].GroupMemberPublicKey \in existingMembers
    THEN [err |-> "RuleErrorMessagingMemberAlreadyExists",
          existingMembers |-> existingMembers, newMessagingMembers |-> newMessagingMembers]
    ELSE ExistingMessagingMembersLoop(existing, i + 1,
             existingMembers \cup {existing[i].GroupMemberPublicKey},
             Append(newMessagingMembers, existing[i]))

RECURSIVE MessagingMembersLoopBeforeFork(_, _, _, _, _)
MessagingMembersLoopBeforeFork(v, members, i, existingMembers, newMessagingMembers) ==
    IF i > Len(members)
    THEN [bav |-> v, err |-> NoError, newMessagingMembers |-> newMessagingMembers]
    ELSE LET r == ValidateMessagingMember(v, members[i]) IN
         IF r.err # NoError
         THEN [bav |-> r.bav, err |-> r.err, newMessagingMembers |-> newMessagingMembers]
         ELSE IF members[i].GroupMemberPublicKey \in existingMembers
         THEN [bav |-> r.bav, err |-> "RuleErrorMessagingMemberAlreadyExists",
               newMessagingMembers |-> newMessagingMembers]
         ELSE MessagingMembersLoopBeforeFork(r.bav, members, i + 1,
                  existingMembers \cup {members[i].GroupMemberPublicKey},
                  Append(newMessagingMembers, members[i]))

RECURSIVE MessagingMembersLoop(_, _, _, _)
MessagingMembersLoop(v, members, i, newMessagingMembers) ==
    IF i > Len(members)
    THEN [bav |-> v, err |-> NoError, newMessagingMembers |-> newMessagingMembers]
    ELSE LET r == ValidateMessagingMember(v, members[i]) IN
         IF r.err # NoError
         THEN [bav |-> r.bav, err |-> r.err, newMessagingMembers |-> newMessagingMembers]
         ELSE MessagingMembersLoop(r.bav, members, i + 1,
                                   Append(newMessagingMembers, members[i]))

\* The mute loop sets IsMuted on each member of the transaction as it passes
\* the checks: members is the list of the transaction as the loop leaves it.
RECURSIVE MessagingMuteLoop(_, _, _, _, _)
MessagingMuteLoop(v, existingEntry, members, i, newMuteList) ==
    IF i > Len(members)
    THEN [err |-> NoError, list |-> newMuteList, members |-> members]
    ELSE IF members[i].IsMuted
    THEN [err |-> "RuleErrorMessagingMemberIsMutedAlreadySetToTrue",
          list |-> newMuteList, members |-> members]
    ELSE IF members[i].GroupMemberPublicKey = existingEntry.GroupOwnerPublicKey
    THEN [err |-> "RuleErrorMessagingGroupOwnerMutingSelf",
          list |-> newMuteList, members |-> members]
    ELSE IF GetMessagingMember(v, members[i].GroupMemberPublicKey,
                existingEntry.GroupOwnerPublicKey, existingEntry.AccessGroupKeyName) = Nil
    THEN [err |-> "RuleErrorMessagingMemberNotInGroup",
          list |-> newMuteList, members |-> members]
    ELSE LET muted == [members[i] EXCEPT !.IsMuted = TRUE] IN
         MessagingMuteLoop(v, existingEntry, [members EXCEPT ![i] = muted], i + 1,
                           Append(newMuteList, muted))

RECURSIVE MessagingUnmuteLoop(_, _, _, _, _)
MessagingUnmuteLoop(v, existingEntry, members, i, newUnmuteList) ==
    IF i > Len(members)
    THEN [err |-> NoError, list |-> newUnmuteList, members |-> members]
    ELSE IF GetMessagingMember(v, members[i].GroupMemberPublicKey,
                existingEntry.GroupOwnerPublicKey, existingEntry.AccessGroupKeyName) = Nil
    THEN [err |-> "RuleErrorMessagingMemberNotInGroup",
          list |-> newUnmuteList, members |-> members]
    ELSE IF members[i].GroupMemberPublicKey = existingEntry.GroupOwnerPublicKey
    THEN [err |-> "RuleErrorMessagingGroupOwnerUnmutingSelf",
          list |-> newUnmuteList, members |-> members]
    ELSE LET unmuted == [members[i] EXCEPT !.IsMuted = FALSE] IN
         MessagingUnmuteLoop(v, existingEntry, [members EXCEPT ![i] = unmuted], i + 1,
                             Append(newUnmuteList, unmuted))

\* What _connectMessagingGroup returns, with the view it leaves behind, whether
\* _connectBasicTransfer was run, and the members of the transaction as the
\* call leaves them.
MessagingConnectResult(v, err, utxoOps, basic, members) ==
    [bav |-> v, err |-> err, utxoOps |-> utxoOps, basic |-> basic, members |-> members]

MessagingOperationSwitch(v, txn, blockHeight, messagingGroupOperation, existingEntry, messagingPublicKey) ==
    LET none == [bav |-> v, err |-> NoError, done |-> FALSE,
                 members |-> txn.AccessGroupMembers,
                 newMessagingMembers |-> <<>>, newMuteList |-> <<>>, newUnmuteList |-> <<>>]
    IN
    CASE messagingGroupOperation = "AccessGroupOperationAddMembers" ->
           IF blockHeight < DeSoAccessGroupsBlockHeight
           THEN IF IsLive(existingEntry) /\ Len(txn.AccessGroupMembers) = 0
                THEN [none EXCEPT !.err = "RuleErrorMessagingKeyDoesntAddMembers"]
                ELSE LET old == IF IsLive(existingEntry)
                                THEN ExistingMessagingMembersLoop(
                                         existingEntry.DEPRECATED_AccessGroupMembers, 1,
                                         {messagingPublicKey}, <<>>)
                                ELSE [err |-> NoError, existingMembers |-> {messagingPublicKey},
                                      newMessagingMembers |-> <<>>]
                     IN IF old.err # NoError
                        THEN [none EXCEPT !.err = old.err]
                        ELSE LET r == MessagingMembersLoopBeforeFork(v,
                                          txn.AccessGroupMembers, 1,
                                          old.existingMembers, old.newMessagingMembers)
                             IN [none EXCEPT !.bav = r.bav, !.err = r.err,
                                             !.newMessagingMembers = r.newMessagingMembers]
           ELSE LET r == MessagingMembersLoop(v, txn.AccessGroupMembers, 1, <<>>)
                IN [none EXCEPT !.bav = r.bav, !.err = r.err,
                                !.newMessagingMembers = r.newMessagingMembers]
      [] messagingGroupOperation = "AccessGroupOperationMuteMembers" ->
           IF ~IsLive(existingEntry)
           THEN [none EXCEPT !.err = "RuleErrorMessagingGroupDoesntExist"]
           ELSE LET r == MessagingMuteLoop(v, existingEntry, txn.AccessGroupMembers, 1, <<>>)
                IN [none EXCEPT !.err = r.err, !.newMuteList = r.list,
                                !.members = r.members]
      [] messagingGroupOperation = "AccessGroupOperationUnmuteMembers" ->
           IF ~IsLive(existingEntry)
           THEN [none EXCEPT !.err = "RuleErrorMessagingGroupDoesntExist"]
           ELSE LET r == MessagingUnmuteLoop(v, existingEntry, txn.AccessGroupMembers, 1, <<>>)
                IN [none EXCEPT !.err = r.err, !.newUnmuteList = r.list,
                                !.members = r.members]
      [] OTHER -> [none EXCEPT !.done = TRUE]

RECURSIVE SetMessagingMemberLoop(_, _, _, _)
SetMessagingMemberLoop(v, messagingGroupEntry, list, i) ==
    IF i > Len(list) THEN v
    ELSE SetMessagingMemberLoop(SetMessagingMember(v, messagingGroupEntry, list[i]),
                                messagingGroupEntry, list, i + 1)

MessagingAfterBasicTransfer(v, txn, blockHeight) ==
    LET messagingGroupKey ==
            ResolveAccessGroupKey(txn.PublicKey, txn.AccessPublicKey, txn.AccessGroupKeyName)
        messagingPublicKey ==
            ResolveAccessPublicKey(txn.AccessPublicKey, txn.AccessGroupKeyName)
        got == GetMessagingGroupKeyToMessagingGroupEntryMapping(v, messagingGroupKey)
        existingEntry == got.val
        operation == IF blockHeight < DeSoAccessGroupsBlockHeight
                     THEN [val |-> "AccessGroupOperationAddMembers", err |-> NoError]
                     ELSE GetAccessGroupOperation(txn)
    IN
    IF operation.err # NoError
    THEN MessagingConnectResult(got.bav, operation.err, <<>>, "connected",
                                txn.AccessGroupMembers)
    ELSE IF IsLive(existingEntry) /\ existingEntry.AccessPublicKey # messagingPublicKey
    THEN MessagingConnectResult(got.bav, "RuleErrorMessagingPublicKeyCannotBeDifferent",
                                <<>>, "connected", txn.AccessGroupMembers)
    ELSE
    LET sw == MessagingOperationSwitch(got.bav, txn, blockHeight, operation.val,
                                       existingEntry, messagingPublicKey)
    IN
    IF sw.done \/ sw.err # NoError
    THEN MessagingConnectResult(sw.bav, sw.err, <<>>, "connected", sw.members)
    ELSE
    LET extraData ==
            IF blockHeight >= ExtraDataOnEntriesBlockHeight
            THEN mergeExtraData(IF IsLive(existingEntry) THEN existingEntry.ExtraData ELSE {},
                                txn.ExtraData)
            ELSE {}
        messagingGroupEntry ==
            NewAccessGroupEntry(messagingGroupKey[1], messagingPublicKey,
                NewGroupKeyName(txn.AccessGroupKeyName), sw.newMessagingMembers, extraData)
        prevMessagingGroupEntry ==
            IF IsLive(existingEntry)
            THEN DecodeFromBytes(EncodeToBytes(existingEntry))
            ELSE Nil
        muted == IF blockHeight >= DeSoAccessGroupsBlockHeight
                 THEN SetMessagingMemberLoop(
                          SetMessagingMemberLoop(sw.bav, messagingGroupEntry,
                                                 sw.newMuteList, 1),
                          messagingGroupEntry, sw.newUnmuteList, 1)
                 ELSE sw.bav
    IN MessagingConnectResult(
           _setMessagingGroupKeyToMessagingGroupEntryMapping(muted, messagingGroupKey[1],
                                                             messagingGroupEntry),
           NoError,
           Append(BasicTransferOps,
                  [Type |-> "OperationTypeMessagingKey",
                   PrevMessagingKeyEntry |-> prevMessagingGroupEntry]),
           "connected", sw.members)

_connectMessagingGroup(v, txn, blockHeight, basicOk) ==
    LET rejected(err, basic) ==
            MessagingConnectResult(v, err, <<>>, basic, txn.AccessGroupMembers)
    IN
    IF blockHeight < DeSoV3MessagesBlockHeight
    THEN rejected("RuleErrorMessagingKeyBeforeBlockHeight", "none")
    ELSE IF txn.TxnType # "TxnTypeMessagingGroup"
    THEN rejected("bad TxnType", "none")
    ELSE IF EqualGroupKeyName(NewGroupKeyName(txn.AccessGroupKeyName), BaseGroupKeyName)
    THEN rejected("RuleErrorMessagingKeyNameCannotBeZeros", "none")
    ELSE IF ValidateGroupPublicKeyAndName(txn.AccessPublicKey, txn.AccessGroupKeyName) # NoError
    THEN rejected(ValidateGroupPublicKeyAndName(txn.AccessPublicKey,
                                                txn.AccessGroupKeyName), "none")
    ELSE IF IsByteArrayValidPublicKey(txn.PublicKey) # NoError
    THEN rejected(IsByteArrayValidPublicKey(txn.PublicKey), "none")
    ELSE IF txn.AccessPublicKey = txn.PublicKey
    THEN rejected("RuleErrorMessagingPublicKeyCannotBeOwnerKey", "none")
    ELSE IF /\ blockHeight < DeSoAccessGroupsBlockHeight
            /\ EqualGroupKeyName(NewGroupKeyName(txn.AccessGroupKeyName), DefaultGroupKeyName)
            /\ _verifyBytesSignature(txn) # NoError
    THEN rejected(_verifyBytesSignature(txn), "none")
    ELSE IF ~basicOk
    THEN rejected("_connectBasicTransfer", "failed")
    ELSE MessagingAfterBasicTransfer(v, txn, blockHeight)

_disconnectMessagingGroup(v, operationType, currentTxn, utxoOpsForTxn) ==
    IF Len(utxoOpsForTxn) = 0
    THEN DisconnectResult(v, "utxoOperations are missing")
    ELSE IF utxoOpsForTxn[Len(utxoOpsForTxn)].Type # "OperationTypeMessagingKey"
    THEN DisconnectResult(v, "bad operation type")
    ELSE IF currentTxn.TxnType # "TxnTypeMessagingGroup"
    THEN DisconnectResult(v, "bad TxnType")
    ELSE IF ValidateGroupPublicKeyAndName(currentTxn.AccessPublicKey,
                                          currentTxn.AccessGroupKeyName) # NoError
    THEN DisconnectResult(v, ValidateGroupPublicKeyAndName(currentTxn.AccessPublicKey,
                                                          currentTxn.AccessGroupKeyName))
    ELSE
    LET messagingKey == ResolveAccessGroupKey(currentTxn.PublicKey,
                            currentTxn.AccessPublicKey, currentTxn.AccessGroupKeyName)
        got == GetMessagingGroupKeyToMessagingGroupEntryMapping(v, messagingKey)
        messagingKeyEntry == got.val
        prevMessagingKeyEntry == utxoOpsForTxn[Len(utxoOpsForTxn)].PrevMessagingKeyEntry
    IN
    IF messagingKeyEntry = Nil \/ messagingKeyEntry.isDeleted
    THEN DisconnectResult(got.bav, "this key was already deleted")
    ELSE IF prevMessagingKeyEntry # Nil
            /\ (\/ messagingKeyEntry.AccessPublicKey # prevMessagingKeyEntry.AccessPublicKey
                \/ messagingKeyEntry.GroupOwnerPublicKey
                       # prevMessagingKeyEntry.GroupOwnerPublicKey
                \/ ~EqualGroupKeyName(messagingKeyEntry.AccessGroupKeyName,
                                      prevMessagingKeyEntry.AccessGroupKeyName))
    THEN DisconnectResult(got.bav, "this key was already deleted")
    ELSE
    LET deleted == _deleteMessagingGroupKeyToMessagingGroupEntryMapping(got.bav,
                       messagingKey[1], messagingKeyEntry)
        restored == IF prevMessagingKeyEntry # Nil
                    THEN _setMessagingGroupKeyToMessagingGroupEntryMapping(deleted,
                             messagingKey[1], prevMessagingKeyEntry)
                    ELSE deleted
    IN _disconnectBasicTransfer(restored, SubSeq(utxoOpsForTxn, 1, Len(utxoOpsForTxn) - 1))

----------------------------------------------------------------------------
(* Transactions *)

\* Key names as transactions carry them: a name, the same name with a
\* trailing zero, the empty name and a name of 33 bytes.
NameOne == <<1>>
NameOneZero == <<1, 0>>
NameEmpty == <<>>
NameZero == <<0>>
NameLong == Bytes(MaxAccessKeyNameCharacters + 1, 1)
\* a name of exactly the longest accepted length
NameFull == Bytes(MaxAccessKeyNameCharacters, 1)

EncryptedKeyOk == Bytes(PrivKeyBytesLen, 7)
EncryptedKeyShort == Bytes(PrivKeyBytesLen - 1, 7)

\* Members: B, A and P under their base keys; B with a short encrypted key;
\* B under the group (B, NameOne), which exists only once B has created it.
MemberB == NewAccessGroupMember(PkB, BaseGroupKeyName, EncryptedKeyOk)
MemberA == NewAccessGroupMember(PkA, BaseGroupKeyName, EncryptedKeyOk)
MemberP == NewAccessGroupMember(PkP, BaseGroupKeyName, EncryptedKeyOk)
MemberBShort == NewAccessGroupMember(PkB, BaseGroupKeyName, EncryptedKeyShort)
MemberBOne == NewAccessGroupMember(PkB, NewGroupKeyName(NameOne), EncryptedKeyOk)

CreateTxn(pk, accessPk, name, members, op, extraData) ==
    [TxnType |-> "TxnTypeCreateAccessGroup", PublicKey |-> pk,
     AccessPublicKey |-> accessPk, AccessGroupKeyName |-> name,
     AccessGroupMembers |-> members, AccessGroupOperation |-> op,
     ExtraData |-> extraData, GroupOwnerSignature |-> "signed"]

\* A CreateAccessGroup transaction whose owner signature does not verify.
UnsignedCreateTxn(pk, accessPk, name, members) ==
    [CreateTxn(pk, accessPk, name, members, "AccessGroupOperationAddMembers", {})
        EXCEPT !.GroupOwnerSignature = "unsigned"]

MembersTxn(pk, accessPk, name, members, op) ==
    [TxnType |-> "TxnTypeAccessGroupMembers", PublicKey |-> pk,
     AccessPublicKey |-> accessPk, AccessGroupKeyName |-> name,
     AccessGroupMembers |-> members, AccessGroupMemberOperationType |-> op]

\* A MessagingGroup transaction of the messaging group revision; its members
\* carry IsMuted, and it carries the owner's signature of the key and name.
MessagingGroupTxn(pk, accessPk, name, members, op, signature) ==
    [TxnType |-> "TxnTypeMessagingGroup", PublicKey |-> pk,
     AccessPublicKey |-> accessPk, AccessGroupKeyName |-> name,
     AccessGroupMembers |-> members, AccessGroupOperation |-> op,
     ExtraData |-> {}, GroupOwnerSignature |-> signature]

NameDefault == <<100, 101, 102>>

MessagingMemberB == NewMessagingMember(PkB, BaseGroupKeyName, EncryptedKeyOk, FALSE)
MessagingMemberA == NewMessagingMember(PkA, BaseGroupKeyName, EncryptedKeyOk, FALSE)
MessagingMemberP == NewMessagingMember(PkP, BaseGroupKeyName, EncryptedKeyOk, FALSE)
MessagingMemberBMuted == NewMessagingMember(PkB, BaseGroupKeyName, EncryptedKeyOk, TRUE)
MessagingMemberBShort == NewMessagingMember(PkB, BaseGroupKeyName, EncryptedKeyShort, FALSE)

\* A durable store that earlier blocks left: the group (A, NameOne) and its
\* member B in the membership index.
MessagingDB ==
    [EmptyDB EXCEPT
       !.groups = MapSet(EmptyMap, NewAccessGroupKey(PkA, NameOne),
                      NewAccessGroupEntry(PkA, PkP, NewGroupKeyName(NameOne), <<>>, {})),
       !.members = MapSet(EmptyMap,
                      NewGroupMembershipKey(PkB, PkA, NewGroupKeyName(NameOne)),
                      MessagingMemberB)]

AttributesTxn(pk, holder, holderKey, op, attributeType, value) ==
    [TxnType |-> "TxnTypeAccessGroupAttributes", PublicKey |-> pk,
     AccessGroupAttributeHolder |-> holder, AttributeHolderKey |-> holderKey,
     AccessGroupAttributeOperationType |-> op, AttributeType |-> attributeType,
     AttributeValue |-> value]

MemberHolderKey(owner, name, member) ==
    [type |-> "*GroupEnumerationKey", key |-> NewGroupEnumerationKey(owner, name, member)]

GroupHolderKey(owner, name) ==
    [type |-> "*AccessGroupKey", key |-> NewAccessGroupKey(owner, name)]

AddMembers == "AccessGroupOperationAddMembers"
MuteMembers == "AccessGroupOperationMuteMembers"
UnmuteMembers == "AccessGroupOperationUnmuteMembers"
RemoveMembers == "AccessGroupOperationRemoveMembers"
MemberAdd == "AccessGroupMemberOperationTypeAdd"
MemberRemove == "AccessGroupMemberOperationTypeRemove"
HolderMember == "AccessGroupAttributeHolderMember"
HolderGroup == "AccessGroupAttributeHolderGroup"
AttributeAdd == "AccessGroupAttributeOperationTypeAdd"
AttributeRemove == "AccessGroupAttributeOperationTypeRemove"

\* Attribute transactions: by the owner A of the holder key and by B, on a
\* member and on a group, with the holder tag that matches the key and the
\* one that does not; one with a key of neither shape, one with no known
\* operation.
AttributesTxns ==
    { AttributesTxn(pk, holder, holderKey, op, attributeType, <<5>>) :
          pk \in {PkA, PkB},
          holder \in {HolderMember, HolderGroup},
          holderKey \in {MemberHolderKey(PkA, NameOne, PkB), GroupHolderKey(PkA, NameOne)},
          op \in {AttributeAdd, AttributeRemove},
          attributeType \in {AccessGroupMemberAttributeIsMuted, 7} }
    \cup
    { AttributesTxn(PkA, HolderGroup, [type |-> "*DmMessageKey", key |-> <<PkA, PkB>>],
                    AttributeAdd, 7, <<5>>),
      AttributesTxn(PkA, HolderGroup, GroupHolderKey(PkA, NameOne),
                    "AccessGroupAttributeOperationTypeUnknown", 7, <<5>>) }

\* The transactions a behaviour draws from, by the part of the engine they
\* exercise.  Each pool holds well-formed transactions and transactions with
\* one thing wrong.
Mempool(pool) ==
    CASE pool = "registry" ->
           { CreateTxn(PkA, PkP, NameOne, <<>>, AddMembers, {}),
             CreateTxn(PkA, PkP, NameOne, <<MemberB>>, AddMembers, {<<1, 1>>}),
             CreateTxn(PkA, PkP, NameOne, <<MemberP>>, AddMembers, {<<1, 2>>}),
             CreateTxn(PkA, PkQ, NameOne, <<>>, AddMembers, {}),
             CreateTxn(PkA, PkP, NameOne, <<>>, RemoveMembers, {}),
             CreateTxn(PkA, PkP, NameEmpty, <<>>, AddMembers, {}),
             CreateTxn(PkA, PkP, NameZero, <<>>, AddMembers, {}),
             UnsignedCreateTxn(PkA, PkP, NameDefault, <<>>),
             CreateTxn(PkA, PkP, NameLong, <<>>, AddMembers, {}),
             CreateTxn(PkA, PkP, NameFull, <<>>, AddMembers, {}),
             CreateTxn(PkA, PkInvalid, NameOne, <<>>, AddMembers, {}),
             CreateTxn(PkA, PkA, NameOne, <<>>, AddMembers, {}),
             CreateTxn(PkInvalid, PkP, NameOne, <<>>, AddMembers, {}),
             CreateTxn(PkA, PkP, NameOne, <<MemberBShort>>, AddMembers, {}),
             CreateTxn(PkA, PkP, NameOne, <<MemberBOne>>, AddMembers, {}),
             CreateTxn(PkA, PkP, NameOne, <<MemberB, MemberB>>, AddMembers, {}),
             MembersTxn(PkB, PkP, NameOne, <<MemberA>>, MemberAdd),
             AttributesTxn(PkA, HolderGroup, GroupHolderKey(PkA, NameOne),
                           AttributeAdd, 7, <<5>>) }
      [] pool = "members" ->
           { CreateTxn(PkA, PkP, NameOne, <<>>, AddMembers, {}),
             CreateTxn(PkA, GetS256BasePointCompressed, NameOne, <<>>,
                       AddMembers, {}),
             CreateTxn(PkB, PkQ, NameOne, <<>>, AddMembers, {}),
             CreateTxn(PkB, GetS256BasePointCompressed, NameOne, <<>>,
                       AddMembers, {}),
             CreateTxn(PkB, GetS256BasePointCompressed, NameOneZero, <<>>,
                       AddMembers, {}),
             MembersTxn(PkA, PkP, NameOne, <<MemberB>>, MemberAdd),
             MembersTxn(PkA, PkP, NameOne, <<MemberP, MemberB>>, MemberAdd),
             MembersTxn(PkA, PkP, NameOne, <<MemberBOne>>, MemberAdd),
             MembersTxn(PkA, GetS256BasePointCompressed, NameOne, <<MemberB>>, MemberAdd),
             MembersTxn(PkA, PkQ, NameOne, <<MemberB>>, MemberAdd),
             MembersTxn(PkA, PkP, NameOne, <<MemberB>>, MemberRemove),
             MembersTxn(PkA, PkP, NameOne, <<MemberB>>,
                        "AccessGroupMemberOperationTypeUnknown"),
             MembersTxn(PkA, PkP, NameOne, <<MemberBShort>>, MemberAdd),
             MembersTxn(PkA, PkP, NameEmpty, <<MemberB>>, MemberAdd),
             MembersTxn(PkA, PkP, NameZero, <<MemberB>>, MemberAdd),
             MembersTxn(PkA, PkP, NameLong, <<MemberB>>, MemberAdd),
             MembersTxn(PkA, PkP, NameFull, <<MemberB>>, MemberAdd),
             MembersTxn(PkA, PkA, NameOne, <<MemberB>>, MemberAdd),
             MembersTxn(PkA, PkInvalid, NameOne, <<MemberB>>, MemberAdd),
             MembersTxn(PkInvalid, PkP, NameOne, <<MemberB>>, MemberAdd),
             AttributesTxn(PkB, HolderMember, MemberHolderKey(PkA, NameOne, PkB),
                           AttributeAdd, 7, <<5>>) }
      [] pool = "mute" ->
           { CreateTxn(PkA, PkP, NameOne, <<>>, AddMembers, {}),
             MembersTxn(PkA, PkP, NameOne, <<MemberB>>, MemberAdd),
             MembersTxn(PkA, PkP, NameOne, <<MemberA>>, MemberAdd),
             CreateTxn(PkA, PkP, NameOne, <<MemberB>>, MuteMembers, {}),
             CreateTxn(PkA, PkP, NameOne, <<MemberB>>, UnmuteMembers, {}),
             CreateTxn(PkA, PkP, NameOne, <<MemberA>>, MuteMembers, {}),
             CreateTxn(PkA, PkP, NameOne, <<MemberA>>, UnmuteMembers, {}),
             CreateTxn(PkA, PkP, NameOne, <<MemberP>>, MuteMembers, {}),
             CreateTxn(PkA, PkP, NameOne, <<MemberP>>, UnmuteMembers, {}),
             CreateTxn(PkA, PkQ, NameOne, <<MemberB>>, MuteMembers, {}),
             AttributesTxn(PkA, HolderMember, MemberHolderKey(PkA, NameOne, PkB),
                           AttributeRemove, AccessGroupMemberAttributeIsMuted, <<>>),
             AttributesTxn(PkA, HolderMember, MemberHolderKey(PkA, NameOne, PkA),
                           AttributeAdd, AccessGroupMemberAttributeIsMuted, <<>>) }
      [] pool = "messaging" ->
           { MessagingGroupTxn(PkA, PkP, NameOne, <<>>, AddMembers, "signed"),
             MessagingGroupTxn(PkA, PkP, NameOne, <<MessagingMemberB>>, AddMembers, "signed"),
             MessagingGroupTxn(PkA, PkP, NameOne, <<MessagingMemberB, MessagingMemberB>>,
                               AddMembers, "signed"),
             MessagingGroupTxn(PkA, PkP, NameOne, <<MessagingMemberBShort>>,
                               AddMembers, "signed"),
             MessagingGroupTxn(PkA, PkQ, NameOne, <<MessagingMemberB>>, AddMembers, "signed"),
             MessagingGroupTxn(PkA, PkP, NameEmpty, <<>>, AddMembers, "signed"),
             MessagingGroupTxn(PkA, PkP, NameDefault, <<>>, AddMembers, "signed"),
             MessagingGroupTxn(PkA, PkP, NameDefault, <<>>, AddMembers, "unsigned"),
             MessagingGroupTxn(PkA, PkP, NameOne, <<>>, RemoveMembers, "signed"),
             MessagingGroupTxn(PkA, PkP, NameOne, <<MessagingMemberB>>, MuteMembers, "signed"),
             MessagingGroupTxn(PkA, PkP, NameOne, <<MessagingMemberB, MessagingMemberP>>,
                               MuteMembers, "signed"),
             MessagingGroupTxn(PkA, PkP, NameOne, <<MessagingMemberBMuted>>,
                               MuteMembers, "signed"),
             MessagingGroupTxn(PkA, PkP, NameOne, <<MessagingMemberA>>, MuteMembers, "signed"),
             MessagingGroupTxn(PkA, PkP, NameOne, <<MessagingMemberBMuted>>,
                               UnmuteMembers, "signed"),
             MessagingGroupTxn(PkA, PkP, NameOne, <<MessagingMemberBMuted, MessagingMemberP>>,
                               UnmuteMembers, "signed") }
      [] OTHER ->
           { CreateTxn(PkA, PkP, NameOne, <<>>, AddMembers, {}),
             MembersTxn(PkA, PkP, NameOne, <<MemberB>>, MemberAdd) }
           \cup AttributesTxns

Mempools == {"registry", "members", "mute", "attributes", "messaging"}

CreateTxns == {t \in Mempool(mempool) : t.TxnType = "TxnTypeCreateAccessGroup"}
MembersTxns == {t \in Mempool(mempool) : t.TxnType = "TxnTypeAccessGroupMembers"}
AttributesTxnsOffered == {t \in Mempool(mempool) : t.TxnType = "TxnTypeAccessGroupAttributes"}
MessagingGroupTxns == {t \in Mempool(mempool) : t.TxnType = "TxnTypeMessagingGroup"}

----------------------------------------------------------------------------
(* What the getters return *)

GroupOwners == {PkA, PkB, GetS256BasePointCompressed}
MemberKeys == {PkA, PkB, PkP}
AttributeTypes == {AccessGroupMemberAttributeIsMuted, 7}

AccessGroupKeys == {NewAccessGroupKey(o, NameOne) : o \in GroupOwners}
GroupMembershipKeys ==
    {NewGroupMembershipKey(m, o, NameOne) : m \in MemberKeys, o \in GroupOwners}
GroupEnumerationKeys ==
    {NewGroupEnumerationKey(o, NameOne, m) : o \in GroupOwners, m \in MemberKeys}

\* Every getter at every key, as the getter returns it.
GetterResults(v) ==
    [groups |-> [k \in AccessGroupKeys |->
                    GetAccessGroupKeyToAccessGroupEntryMapping(v, k).val],
     existence |-> [k \in AccessGroupKeys |->
                    GetAccessGroupForAccessGroupKeyExistence(v, k).val],
     members |-> [k \in GroupMembershipKeys |->
                    GetAccessGroupMember(v, k[1], k[2], k[3]).val],
     memberAttrs |-> [k \in GroupEnumerationKeys \X AttributeTypes |->
                    GetGroupMemberAttributeEntry(v, k[1], k[2])],
     groupAttrs |-> [k \in AccessGroupKeys \X AttributeTypes |->
                    GetGroupEntryAttributeEntry(v, k[1], k[2])]]

\* A record a getter returns counts as absent when it is a tombstone.
LiveOrNil(entry) == IF entry = Nil \/ entry.isDeleted THEN Nil ELSE entry

\* Every getter at every key, a tombstone read as absent.
LiveResults(v) ==
    [groups |-> [k \in AccessGroupKeys |->
                    GetAccessGroupForAccessGroupKeyExistence(v, k).val],
     members |-> [k \in GroupMembershipKeys |->
                    LiveOrNil(GetAccessGroupMember(v, k[1], k[2], k[3]).val)],
     memberAttrs |-> [k \in GroupEnumerationKeys \X AttributeTypes |->
                    LiveOrNil(GetGroupMemberAttributeEntry(v, k[1], k[2]))],
     groupAttrs |-> [k \in AccessGroupKeys \X AttributeTypes |->
                    LiveOrNil(GetGroupEntryAttributeEntry(v, k[1], k[2]))]]

----------------------------------------------------------------------------
(* Flushing the view to the durable store *)

\* One index after the flush: the overlay's live records written, the keys
\* of its tombstones deleted.
FlushIndex(index, overlay) ==
    [k \in {x \in DOMAIN index \cup DOMAIN overlay :
                ~(x \in DOMAIN overlay /\ overlay[x].isDeleted)} |->
        IF k \in DOMAIN overlay THEN overlay[k] ELSE index[k]]

FlushToDb(store, v) ==
    [groups |-> FlushIndex(store.groups, v.AccessGroupKeyToAccessGroupEntry),
     members |-> FlushIndex(store.members, v.GroupMembershipKeyToAccessGroupMember),
     memberAttrs |-> FlushIndex(store.memberAttrs, v.GroupMemberAttributes),
     groupAttrs |-> FlushIndex(store.groupAttrs, v.GroupEntryAttributes)]

----------------------------------------------------------------------------
(* The block processor: the calls made on the view *)

Heights == 0..DeSoAccessGroupsBlockHeight

ConnectCalls ==
    {"_connectAccessGroupCreate", "_connectAccessGroupMembers",
     "_connectAccessGroupAttributes", "_connectMessagingGroup"}

DisconnectCalls ==
    {"_disconnectAccessGroupCreate", "_disconnectAccessGroupMembers",
     "_disconnectAccessGroupAttributes", "_disconnectMessagingGroup"}

Init ==
    /\ mempool \in Mempools
    /\ bav = NewUtxoView
    /\ db \in IF mempool = "messaging" THEN {EmptyDB, MessagingDB} ELSE {EmptyDB}
    /\ tipHeight \in Heights
    /\ flushes = 0
    /\ calls = 0
    /\ chain = <<>>
    /\ last = [call |-> "NewUtxoView", txn |-> Nil, err |-> NoError, basic |-> "none",
               pre |-> NewUtxoView, immediate |-> FALSE, before |-> NewUtxoView]
    /\ start = LiveResults(NewUtxoView)

\* A transaction is connected: the view is what the connect function leaves;
\* an accepted transaction joins the chain with its operations.  A block with
\* a rejected transaction is rejected and its view discarded, so that no call
\* follows a failed one.
Connected(call, txn, r) ==
    /\ bav' = r.bav
    /\ chain' = IF r.err = NoError
                THEN Append(chain, [txn |-> txn, utxoOps |-> r.utxoOps,
                                    blockHeight |-> tipHeight])
                ELSE chain
    /\ last' = [call |-> call, txn |-> txn, err |-> r.err, basic |-> r.basic,
                pre |-> bav, immediate |-> FALSE, before |-> bav]
    /\ start' = IF chain = <<>> THEN LiveResults(bav) ELSE start
    /\ UNCHANGED <<db, tipHeight, flushes, mempool>>

ConnectAccessGroupCreate ==
    /\ last.err = NoError
    /\ calls < MaxCalls
    /\ calls' = calls + 1
    /\ Len(chain) < MaxTxns
    /\ \E txn \in CreateTxns, basicOk \in BOOLEAN :
           \E r \in {_connectAccessGroupCreate(bav, txn, tipHeight, basicOk)} :
               Connected("_connectAccessGroupCreate", txn, r)

ConnectAccessGroupMembers ==
    /\ last.err = NoError
    /\ calls < MaxCalls
    /\ calls' = calls + 1
    /\ Len(chain) < MaxTxns
    /\ \E txn \in MembersTxns, basicOk \in BOOLEAN :
           \E r \in {_connectAccessGroupMembers(bav, txn, tipHeight, basicOk)} :
               Connected("_connectAccessGroupMembers", txn, r)

ConnectAccessGroupAttributes ==
    /\ last.err = NoError
    /\ calls < MaxCalls
    /\ calls' = calls + 1
    /\ Len(chain) < MaxTxns
    /\ \E txn \in AttributesTxnsOffered, basicOk \in BOOLEAN :
           \E r \in {_connectAccessGroupAttributes(bav, txn, tipHeight, basicOk)} :
               Connected("_connectAccessGroupAttributes", txn, r)

ConnectMessagingGroup ==
    /\ last.err = NoError
    /\ calls < MaxCalls
    /\ calls' = calls + 1
    /\ Len(chain) < MaxTxns
    /\ \E txn \in MessagingGroupTxns, basicOk \in BOOLEAN :
           \E r \in {_connectMessagingGroup(bav, txn, tipHeight, basicOk)} :
               Connected("_connectMessagingGroup",
                         [txn EXCEPT !.AccessGroupMembers = r.members], r)

\* The disconnect function of a transaction, by its type.
DisconnectCallOf(txn) ==
    CASE txn.TxnType = "TxnTypeCreateAccessGroup" -> "_disconnectAccessGroupCreate"
      [] txn.TxnType = "TxnTypeAccessGroupMembers" -> "_disconnectAccessGroupMembers"
      [] txn.TxnType = "TxnTypeMessagingGroup" -> "_disconnectMessagingGroup"
      [] OTHER -> "_disconnectAccessGroupAttributes"

DisconnectTransactionResult(v, txn, utxoOps) ==
    CASE txn.TxnType = "TxnTypeCreateAccessGroup" ->
           _disconnectAccessGroupCreate(v, "OperationTypeCreateAccessGroup", txn, utxoOps)
      [] txn.TxnType = "TxnTypeAccessGroupMembers" ->
           _disconnectAccessGroupMembers(v, "OperationTypeAccessGroupMembers", txn, utxoOps)
      [] txn.TxnType = "TxnTypeMessagingGroup" ->
           _disconnectMessagingGroup(v, "OperationTypeMessagingKey", txn, utxoOps)
      [] OTHER ->
           _disconnectAccessGroupAttributes(v, "OperationTypeAccessGroupAttributes",
                                            txn, utxoOps)

\* The newest transaction of the chain is disconnected with its operations.
DisconnectTransaction ==
    /\ last.err = NoError
    /\ calls < MaxCalls
    /\ calls' = calls + 1
    /\ chain # <<>>
    /\ \E top \in {chain[Len(chain)]} :
       \E r \in {DisconnectTransactionResult(bav, top.txn, top.utxoOps)} :
          /\ bav' = r.bav
          /\ chain' = IF r.err = NoError THEN SubSeq(chain, 1, Len(chain) - 1) ELSE chain
          /\ last' = [call |-> DisconnectCallOf(top.txn), txn |-> top.txn, err |-> r.err,
                      basic |-> "none", pre |-> bav,
                      immediate |-> last.call \in ConnectCalls,
                      before |-> IF last.call \in ConnectCalls THEN last.pre ELSE bav]
    /\ UNCHANGED <<db, tipHeight, flushes, start, mempool>>

\* The view is flushed to the durable store and a new view made over it, at
\* the same height or a later one.  The flushed transactions either stay
\* within reach of a reorganisation or are final.
FlushToDbAndNewView ==
    /\ last.err = NoError
    /\ calls < MaxCalls
    /\ calls' = calls + 1
    /\ flushes < MaxFlushes
    /\ db' = FlushToDb(db, bav)
    /\ bav' = NewUtxoView
    /\ flushes' = flushes + 1
    /\ \E h \in Heights : h >= tipHeight /\ tipHeight' = h
    /\ \E final \in BOOLEAN : chain' = IF final THEN <<>> ELSE chain
    /\ last' = [call |-> "FlushToDb", txn |-> Nil, err |-> NoError, basic |-> "none",
                pre |-> bav, immediate |-> FALSE, before |-> bav]
    /\ UNCHANGED <<start, mempool>>

\* The operation logs a caller may hand to _disconnectAccessGroupCreate with
\* txn: none, one whose last record is of another type, and one whose last
\* record holds no previous entry, the current entry, or an entry that
\* differs from the current one in access public key, owner or name.
CreateOperationLogs(v, txn) ==
    LET current == GetAccessGroupKeyToAccessGroupEntryMapping(v,
                       ResolveAccessGroupKey(txn.PublicKey, txn.AccessPublicKey,
                                             txn.AccessGroupKeyName)).val
        prevs == IF current = Nil
                 THEN {Nil, NewAccessGroupEntry(txn.PublicKey, txn.AccessPublicKey,
                                NewGroupKeyName(txn.AccessGroupKeyName), <<>>, {})}
                 ELSE {Nil, current,
                       [current EXCEPT !.AccessPublicKey = PkQ],
                       [current EXCEPT !.GroupOwnerPublicKey = PkQ],
                       [current EXCEPT !.AccessGroupKeyName = DefaultGroupKeyName]}
    IN {<<>>, BasicTransferOps,
        Append(BasicTransferOps, [Type |-> "OperationTypeAccessGroupMembers",
                                  PrevAccessGroupMembers |-> <<>>])}
       \cup {Append(BasicTransferOps, [Type |-> "OperationTypeCreateAccessGroup",
                                       PrevAccessKeyEntry |-> p]) : p \in prevs}

\* _disconnectAccessGroupCreate is called with a transaction and an
\* operation log of the caller's; the log is recorded with the call.  It is
\* the last call of a behaviour: the calls that follow a disconnect are
\* those that follow DisconnectTransaction.
DisconnectAccessGroupCreateWithOperations ==
    /\ last.err = NoError
    /\ calls < MaxCalls
    /\ calls' = MaxCalls
    /\ \E txn \in CreateTxns :
       \E utxoOps \in CreateOperationLogs(bav, txn) :
       \E r \in {_disconnectAccessGroupCreate(bav, "OperationTypeCreateAccessGroup",
                                              txn, utxoOps)} :
          /\ bav' = r.bav
          /\ last' = [call |-> "_disconnectAccessGroupCreate", txn |-> txn, err |-> r.err,
                      basic |-> "none", pre |-> bav, immediate |-> FALSE, before |-> bav,
                      utxoOps |-> utxoOps]
    /\ UNCHANGED <<db, tipHeight, flushes, chain, start, mempool>>

Next ==
    \/ ConnectAccessGroupCreate
    \/ ConnectAccessGroupMembers
    \/ ConnectAccessGroupAttributes
    \/ ConnectMessagingGroup
    \/ DisconnectTransaction
    \/ FlushToDbAndNewView

Spec == Init /\ [][Next]_vars

\* The creation of groups alone, with disconnects on operation logs that a
\* connect did not record.
DisconnectNext ==
    \/ ConnectAccessGroupCreate
    \/ DisconnectTransaction
    \/ FlushToDbAndNewView
    \/ DisconnectAccessGroupCreateWithOperations

DisconnectSpec == Init /\ [][DisconnectNext]_vars

----------------------------------------------------------------------------
(* Properties *)

\* The operation a CreateAccessGroup transaction is connected with at the
\* height of the view.
OperationAtTip(txn) ==
    IF tipHeight < DeSoAccessGroupsBlockHeight THEN AddMembers
    ELSE txn.AccessGroupOperation

\* The key a CreateAccessGroup or AccessGroupMembers transaction touches.
TouchedKey(txn) ==
    ResolveAccessGroupKey(txn.PublicKey, txn.AccessPublicKey, txn.AccessGroupKeyName)

\* The last call disconnected a transaction right after it was connected.
ImmediateDisconnect(call) == last.call = call /\ last.immediate

\* The last call was an immediate disconnect of a CreateAccessGroup
\* transaction that had been connected with the operation op.
ImmediateCreateDisconnect(op) ==
    /\ ImmediateDisconnect("_disconnectAccessGroupCreate")
    /\ OperationAtTip(last.txn) = op

\* C1: when a CreateAccessGroup transaction accepted with the operation
\* AddMembers is disconnected right after its connect, with the operations
\* the connect returned, the disconnect succeeds and the existence getter
\* returns at the touched key what it returned before the connect: nothing
\* when there was no live entry, and otherwise an entry with the same owner,
\* access public key, name, member list and extra data.
CreateAddMembersRoundTrip ==
    ImmediateCreateDisconnect(AddMembers) =>
        /\ last.err = NoError
        /\ GetAccessGroupForAccessGroupKeyExistence(bav, TouchedKey(last.txn)).val
             = GetAccessGroupForAccessGroupKeyExistence(last.before, TouchedKey(last.txn)).val

\* A round trip over an entry that had a member list and extra data.
CreateAddMembersRoundTripWitness ==
    /\ ImmediateCreateDisconnect(AddMembers)
    /\ last.err = NoError
    /\ LET prior == GetAccessGroupForAccessGroupKeyExistence(
                        last.before, TouchedKey(last.txn)).val
       IN /\ prior # Nil
          /\ Len(prior.DEPRECATED_AccessGroupMembers) > 0
          /\ prior.ExtraData # {}

\* C2: after the accepted transactions of the chain have all been
\* disconnected in reverse order, each with its own operations, every getter
\* returns at every group key, membership key and attribute what it returned
\* before the first of them was connected.
ReverseDisconnectRestoresStart ==
    (/\ last.call \in {"_disconnectAccessGroupCreate", "_disconnectAccessGroupMembers",
                       "_disconnectAccessGroupAttributes"}
     /\ last.err = NoError
     /\ chain = <<>>) =>
        LiveResults(bav) = start

\* C3: after an accepted AccessGroupMembers Add of members that were not
\* members before, the member getter returns each member's record; after the
\* matching disconnect the getter returns no live record for any of them.
MembersAddThenDisconnect ==
    /\ (last.call = "_connectAccessGroupMembers" /\ last.err = NoError) =>
           \A i \in 1..Len(last.txn.AccessGroupMembers) :
               LET m == last.txn.AccessGroupMembers[i] IN
               LiveOrNil(GetAccessGroupMember(last.pre, m.GroupMemberPublicKey,
                             TouchedKey(last.txn)[1], TouchedKey(last.txn)[2]).val) = Nil
               => GetAccessGroupMember(bav, m.GroupMemberPublicKey,
                      TouchedKey(last.txn)[1], TouchedKey(last.txn)[2]).val = m
    /\ (ImmediateDisconnect("_disconnectAccessGroupMembers") /\ last.err = NoError) =>
           \A i \in 1..Len(last.txn.AccessGroupMembers) :
               LET m == last.txn.AccessGroupMembers[i] IN
               LiveOrNil(GetAccessGroupMember(last.before, m.GroupMemberPublicKey,
                             TouchedKey(last.txn)[1], TouchedKey(last.txn)[2]).val) = Nil
               => LiveOrNil(GetAccessGroupMember(bav, m.GroupMemberPublicKey,
                                TouchedKey(last.txn)[1], TouchedKey(last.txn)[2]).val) = Nil

\* The IsMuted attribute of a member of the transaction's group, as the
\* getter returns it from the view v.
IsMutedAttribute(v, txn, member) ==
    GetGroupMemberAttributeEntry(v,
        NewGroupEnumerationKey(TouchedKey(txn)[1], TouchedKey(txn)[2],
                               member.GroupMemberPublicKey),
        AccessGroupMemberAttributeIsMuted)

ReadsAsSet(attributeEntry) ==
    attributeEntry # Nil /\ ~attributeEntry.isDeleted /\ attributeEntry.IsSet

\* C4: after an accepted CreateAccessGroup transaction with the operation
\* MuteMembers, from the access groups fork on, the IsMuted attribute of each
\* target reads as set; after the matching disconnect it reads as not set or
\* is absent.
MuteThenDisconnect ==
    /\ (/\ last.call = "_connectAccessGroupCreate" /\ last.err = NoError
        /\ OperationAtTip(last.txn) = MuteMembers) =>
           \A i \in 1..Len(last.txn.AccessGroupMembers) :
               ReadsAsSet(IsMutedAttribute(bav, last.txn, last.txn.AccessGroupMembers[i]))
    /\ (ImmediateCreateDisconnect(MuteMembers) /\ last.err = NoError) =>
           \A i \in 1..Len(last.txn.AccessGroupMembers) :
               ~ReadsAsSet(IsMutedAttribute(bav, last.txn, last.txn.AccessGroupMembers[i]))

\* The attribute an AccessGroupAttributes transaction names, as the getter
\* of its holder returns it from the view v.
AttributeOf(v, txn) ==
    IF txn.AttributeHolderKey.type = "*GroupEnumerationKey"
    THEN GetGroupMemberAttributeEntry(v, txn.AttributeHolderKey.key, txn.AttributeType)
    ELSE GetGroupEntryAttributeEntry(v, txn.AttributeHolderKey.key, txn.AttributeType)

HolderMatchesKey(txn) ==
    \/ txn.AccessGroupAttributeHolder = HolderMember
         /\ txn.AttributeHolderKey.type = "*GroupEnumerationKey"
    \/ txn.AccessGroupAttributeHolder = HolderGroup
         /\ txn.AttributeHolderKey.type = "*AccessGroupKey"

\* C5: an AccessGroupAttributes transaction at a height from the access
\* groups fork on, whose holder tag matches its holder key, whose operation
\* is Add or Remove and whose public key is the owner in the holder key, is
\* accepted once its basic transfer connects, and leaves the attribute
\* {isSet: true, value} after an Add and {isSet: false, value} after a Remove.
OwnerAttributesAccepted ==
    (/\ last.call = "_connectAccessGroupAttributes"
     /\ tipHeight >= DeSoAccessGroupsBlockHeight
     /\ last.basic # "failed"
     /\ HolderMatchesKey(last.txn)
     /\ last.txn.AccessGroupAttributeOperationType \in {AttributeAdd, AttributeRemove}
     /\ last.txn.PublicKey = HolderKeyOwner(last.txn.AttributeHolderKey)) =>
        /\ last.err = NoError
        /\ AttributeOf(bav, last.txn)
             = NewAttributeEntry(last.txn.AccessGroupAttributeOperationType = AttributeAdd,
                                 last.txn.AttributeValue)

\* C6: an AccessGroupAttributes transaction whose public key is not the
\* owner in its holder key is rejected and changes no group attribute and no
\* member attribute; when it gets as far as the owner test (the height is
\* enabled, the basic transfer connects, the holder tag matches the key) the
\* error is OperationDenied.
NonOwnerAttributesDenied ==
    (/\ last.call = "_connectAccessGroupAttributes"
     /\ last.txn.AttributeHolderKey.type \in {"*GroupEnumerationKey", "*AccessGroupKey"}
     /\ last.txn.PublicKey # HolderKeyOwner(last.txn.AttributeHolderKey)) =>
        /\ last.err # NoError
        /\ GetterResults(bav).memberAttrs = GetterResults(last.pre).memberAttrs
        /\ GetterResults(bav).groupAttrs = GetterResults(last.pre).groupAttrs
        /\ (/\ tipHeight >= DeSoV3MessagesBlockHeight
            /\ last.basic = "connected"
            /\ HolderMatchesKey(last.txn)) =>
               last.err = "RuleErrorAccessGroupAttributesOperationDenied"

\* A transaction of B on a holder key of A that got as far as the owner test.
NonOwnerAttributesDeniedWitness ==
    /\ last.call = "_connectAccessGroupAttributes"
    /\ last.txn.PublicKey = PkB
    /\ HolderKeyOwner(last.txn.AttributeHolderKey) = PkA
    /\ HolderMatchesKey(last.txn)
    /\ last.basic = "connected"
    /\ last.err = "RuleErrorAccessGroupAttributesOperationDenied"

\* The Add and the Remove of the attribute of type 7 on the group
\* (A, NameOne), sent by its owner A.
AttributeSevenTxn(op) ==
    AttributesTxn(PkA, HolderGroup, GroupHolderKey(PkA, NameOne), op, 7, <<5>>)

\* C7: from a view where the attribute of type 7 does not exist, the owner's
\* Add(7, v) and Remove(7, v) are accepted and leave isSet = false, and
\* disconnecting the Remove and then the Add, each with its operations,
\* succeeds and leaves the attribute absent: the getter returns no entry that
\* reads as set, as before the connects.
AttributeAddRemoveRoundTrip ==
    LET key == NewAccessGroupKey(PkA, NameOne)
        add == _connectAccessGroupAttributes(bav, AttributeSevenTxn(AttributeAdd),
                                             tipHeight, TRUE)
        remove == _connectAccessGroupAttributes(add.bav, AttributeSevenTxn(AttributeRemove),
                                                tipHeight, TRUE)
        undoRemove == _disconnectAccessGroupAttributes(remove.bav,
                          "OperationTypeAccessGroupAttributes",
                          AttributeSevenTxn(AttributeRemove), remove.utxoOps)
        undoAdd == _disconnectAccessGroupAttributes(undoRemove.bav,
                       "OperationTypeAccessGroupAttributes",
                       AttributeSevenTxn(AttributeAdd), add.utxoOps)
    IN (/\ tipHeight >= DeSoAccessGroupsBlockHeight
        /\ GetGroupEntryAttributeEntry(bav, key, 7) = Nil) =>
           /\ add.err = NoError
           /\ remove.err = NoError
           /\ GetGroupEntryAttributeEntry(remove.bav, key, 7) = NewAttributeEntry(FALSE, <<5>>)
           /\ undoRemove.err = NoError
           /\ undoAdd.err = NoError
           /\ LiveOrNil(GetGroupEntryAttributeEntry(undoAdd.bav, key, 7)) = Nil

\* C8: when a connect function returns an error, every getter returns at
\* every group key, membership key and attribute what it returned before the
\* call.
FailedConnectChangesNothing ==
    (last.call \in ConnectCalls /\ last.err # NoError) =>
        GetterResults(bav) = GetterResults(last.pre)

\* A connect that loaded an entry from the durable store into the view
\* before it failed a check against that entry.
FailedConnectChangesNothingWitness ==
    /\ last.call \in ConnectCalls
    /\ last.err \in {"RuleErrorAccessPublicKeyCannotBeDifferent",
                     "RuleErrorAccessMemberAlreadyUnmuted",
                     "RuleErrorAccessMemberNotInGroup"}
    /\ bav # last.pre

\* The errors of the checks against the metadata and the view that the
\* connect functions make.
ValidationErrors ==
    {"RuleErrorAccessPublicKeyCannotBeDifferent", "RuleErrorAccessMemberKeyDoesntExist",
     "RuleErrorAccessMemberAlreadyExists", "RuleErrorAccessMemberEncryptedKeyTooShort",
     "RuleErrorAccessGroupDoesntExist", "RuleErrorAccessKeyDoesntExist",
     "RuleErrorAccessMemberNotInGroup", "RuleErrorAccessMemberAlreadyMuted",
     "RuleErrorAccessGroupAttributesOperationDenied",
     "RuleErrorAccessGroupAttributesInvalidAttributeHolder",
     "RuleErrorAccessGroupMemberOperationTypeNotSupported"}

\* C9: a transaction rejected by a check against its metadata or the view
\* has not had its basic transfer connected.
BasicTransferAfterValidation ==
    (last.call \in ConnectCalls /\ last.err \in ValidationErrors) => last.basic = "none"

\* An entry to set and delete at a key.
EntryAt(accessGroupKey) ==
    NewAccessGroupEntry(accessGroupKey[1], PkP, accessGroupKey[2], <<>>, {})

\* C10: in every view, setting an entry at a key other than a base key and
\* then deleting it leaves a tombstone in the overlay, and the existence
\* getter returns nothing at the key, on a first read and on a later one,
\* whether or not the durable store holds an entry at the key; and wherever
\* the overlay of a view holds a tombstone the existence getter returns
\* nothing.
TombstoneMasksDurableEntry ==
    \A k \in AccessGroupKeys :
        LET deleted == _deleteAccessGroupKeyToAccessGroupEntryMapping(
                           _setAccessGroupKeyToAccessGroupEntryMapping(bav, k[1], EntryAt(k)),
                           k[1], EntryAt(k))
            first == GetAccessGroupForAccessGroupKeyExistence(deleted, k)
            later == GetAccessGroupForAccessGroupKeyExistence(first.bav, k)
        IN /\ first.val = Nil
           /\ later.val = Nil
           /\ k \in DOMAIN later.bav.AccessGroupKeyToAccessGroupEntry
           /\ later.bav.AccessGroupKeyToAccessGroupEntry[k].isDeleted
           /\ (/\ k \in DOMAIN bav.AccessGroupKeyToAccessGroupEntry
               /\ bav.AccessGroupKeyToAccessGroupEntry[k].isDeleted) =>
                  GetAccessGroupForAccessGroupKeyExistence(bav, k).val = Nil

\* A view whose overlay holds the tombstone of an entry that the durable
\* store still holds: its transaction was flushed and then disconnected.
TombstoneMasksDurableEntryWitness ==
    \E k \in AccessGroupKeys :
        /\ k \in DOMAIN db.groups
        /\ k \in DOMAIN bav.AccessGroupKeyToAccessGroupEntry
        /\ bav.AccessGroupKeyToAccessGroupEntry[k].isDeleted
        /\ last.call = "_disconnectAccessGroupCreate"
        /\ last.err = NoError

\* C11: when the overlay holds an entry at a group key, live or tombstone,
\* the group getters return that entry, whatever the durable store holds at
\* the key, and leave the view as it is; the same for the member getter at a
\* membership key; and an entry that a getter loads from the durable store
\* is in the overlay after the read, so that the next read returns it from
\* the overlay.
OverlayRule ==
    /\ \A k \in AccessGroupKeys :
           LET r == GetAccessGroupKeyToAccessGroupEntryMapping(bav, k)
               e == GetAccessGroupEntry(bav, k[1], k[1], k[2])
           IN IF k \in DOMAIN bav.AccessGroupKeyToAccessGroupEntry
              THEN /\ r.val = bav.AccessGroupKeyToAccessGroupEntry[k] /\ r.bav = bav
                   /\ e.val = bav.AccessGroupKeyToAccessGroupEntry[k] /\ e.bav = bav
              ELSE DBGetAccessGroupEntry(k) # Nil =>
                      /\ r.val = DBGetAccessGroupEntry(k)
                      /\ k \in DOMAIN r.bav.AccessGroupKeyToAccessGroupEntry
                      /\ r.bav.AccessGroupKeyToAccessGroupEntry[k] = r.val
                      /\ e = r
    /\ \A k \in GroupMembershipKeys :
           LET r == GetAccessGroupMember(bav, k[1], k[2], k[3])
           IN IF k \in DOMAIN bav.GroupMembershipKeyToAccessGroupMember
              THEN r.val = bav.GroupMembershipKeyToAccessGroupMember[k] /\ r.bav = bav
              ELSE DBGetMemberFromMembershipIndex(k[1], k[2], k[3]) # Nil =>
                      /\ r.val = DBGetMemberFromMembershipIndex(k[1], k[2], k[3])
                      /\ k \in DOMAIN r.bav.GroupMembershipKeyToAccessGroupMember
                      /\ r.bav.GroupMembershipKeyToAccessGroupMember[k] = r.val

\* A view whose overlay holds, at a group key, an entry other than the one
\* the durable store holds at that key, over a store that also holds a
\* member the overlay has not loaded.
OverlayRuleWitness ==
    /\ \E k \in AccessGroupKeys :
           /\ k \in DOMAIN bav.AccessGroupKeyToAccessGroupEntry
           /\ k \in DOMAIN db.groups
           /\ bav.AccessGroupKeyToAccessGroupEntry[k] # db.groups[k]
    /\ \E k \in GroupMembershipKeys :
           /\ k \in DOMAIN db.members
           /\ k \notin DOMAIN bav.GroupMembershipKeyToAccessGroupMember

\* The group keys of the owners with the base name and with a name that is
\* not the base name.
BaseAndNamedKeys ==
    {NewAccessGroupKey(o, n) : o \in GroupOwners, n \in {NameEmpty, NameZero, NameOne}}

\* The entry the getter makes up for the base key of an owner.
SynthesizedBaseEntry(owner) ==
    [GroupOwnerPublicKey |-> owner, AccessPublicKey |-> owner,
     AccessGroupKeyName |-> BaseGroupKeyName, DEPRECATED_AccessGroupMembers |-> <<>>,
     ExtraData |-> {}, isDeleted |-> FALSE]

\* C12: no view and no durable store holds a group entry under the base
\* name; a CreateAccessGroup or AccessGroupMembers transaction that names the
\* base name at a height from the V3 messages fork on is rejected with
\* NameCannotBeZeros; and the group getters return the synthesized entry of
\* the owner, whose access public key is the owner key, at every key with
\* the base name, and at a key with another name nothing or an entry of
\* that name.
BaseGroupIsSynthesized ==
    /\ \A k \in DOMAIN bav.AccessGroupKeyToAccessGroupEntry :
           /\ ~EqualGroupKeyName(k[2], BaseGroupKeyName)
           /\ ~EqualGroupKeyName(bav.AccessGroupKeyToAccessGroupEntry[k].AccessGroupKeyName,
                                 BaseGroupKeyName)
    /\ \A k \in DOMAIN db.groups : ~EqualGroupKeyName(k[2], BaseGroupKeyName)
    /\ (/\ last.call \in {"_connectAccessGroupCreate", "_connectAccessGroupMembers"}
        /\ tipHeight >= DeSoV3MessagesBlockHeight
        /\ EqualGroupKeyName(NewGroupKeyName(last.txn.AccessGroupKeyName), BaseGroupKeyName))
           => /\ last.err = "RuleErrorAccessKeyNameCannotBeZeros"
              /\ bav = last.pre
    /\ \A k \in BaseAndNamedKeys :
           LET r == GetAccessGroupKeyToAccessGroupEntryMapping(bav, k).val
               e == GetAccessGroupEntry(bav, k[1], k[1], k[2]).val
               x == GetAccessGroupForAccessGroupKeyExistence(bav, k).val
           IN IF EqualGroupKeyName(k[2], BaseGroupKeyName)
              THEN /\ r = SynthesizedBaseEntry(k[1])
                   /\ e = r /\ x = r
                   /\ r.AccessPublicKey = r.GroupOwnerPublicKey
              ELSE /\ r # Nil => ~EqualGroupKeyName(r.AccessGroupKeyName, BaseGroupKeyName)
                   /\ e = r
                   /\ x # Nil => x = r

\* A transaction that names the base name with one zero byte, which passes
\* the length check of the name, rejected over a view that holds a group.
BaseGroupIsSynthesizedWitness ==
    /\ last.call \in {"_connectAccessGroupCreate", "_connectAccessGroupMembers"}
    /\ last.txn.AccessGroupKeyName = NameZero
    /\ last.err = "RuleErrorAccessKeyNameCannotBeZeros"
    /\ \E k \in AccessGroupKeys : IsLive(MapGet(bav.AccessGroupKeyToAccessGroupEntry, k))

\* C13: in every view and in the durable store, every group entry that is
\* not deleted and not under the base name has an access public key other
\* than its group owner public key, the entries of unencrypted groups under
\* the owner G among them; and a CreateAccessGroup or AccessGroupMembers
\* transaction whose access public key is its own public key is not accepted.
AccessKeyIsNotOwnerKey ==
    /\ \A k \in DOMAIN bav.AccessGroupKeyToAccessGroupEntry :
           LET e == bav.AccessGroupKeyToAccessGroupEntry[k]
           IN (~e.isDeleted /\ ~EqualGroupKeyName(k[2], BaseGroupKeyName))
                  => /\ e.AccessPublicKey # e.GroupOwnerPublicKey
                     /\ e.GroupOwnerPublicKey = k[1]
    /\ \A k \in DOMAIN db.groups :
           ~EqualGroupKeyName(k[2], BaseGroupKeyName)
               => db.groups[k].AccessPublicKey # db.groups[k].GroupOwnerPublicKey
    /\ \A k \in AccessGroupKeys :
           LET r == GetAccessGroupKeyToAccessGroupEntryMapping(bav, k).val
           IN IsLive(r) => r.AccessPublicKey # r.GroupOwnerPublicKey
    /\ (/\ last.call \in {"_connectAccessGroupCreate", "_connectAccessGroupMembers"}
        /\ last.txn.AccessPublicKey = last.txn.PublicKey)
           => last.err # NoError

\* A view with a live entry of an unencrypted group under the owner G, whose
\* creating transaction carried G as its access public key.
AccessKeyIsNotOwnerKeyWitness ==
    /\ last.call = "_connectAccessGroupCreate"
    /\ last.err = NoError
    /\ last.txn.AccessPublicKey = GetS256BasePointCompressed
    /\ IsLive(MapGet(bav.AccessGroupKeyToAccessGroupEntry,
                     NewAccessGroupKey(GetS256BasePointCompressed, NameOne)))

\* C14: when a CreateAccessGroup or AccessGroupMembers transaction has passed
\* the checks before the basic transfer and names, after the remapping of G,
\* a key with an entry that is not deleted and an access public key other
\* than that entry's, the connect returns PKCannotBeDifferent (or, for a
\* CreateAccessGroup from the access groups fork on, the error of reading
\* its operation, which comes first) and every group reads as before; and
\* over any call, a group that exists before and after it keeps its access
\* public key.
AccessPublicKeyImmutable ==
    /\ (/\ last.call \in {"_connectAccessGroupCreate", "_connectAccessGroupMembers"}
        /\ last.basic = "connected")
           => LET key == ResolveAccessGroupKey(last.txn.PublicKey, last.txn.AccessPublicKey,
                                               last.txn.AccessGroupKeyName)
                  pk == ResolveAccessPublicKey(last.txn.AccessPublicKey,
                                               last.txn.AccessGroupKeyName)
                  existing == GetAccessGroupKeyToAccessGroupEntryMapping(last.pre, key).val
                  operationErr ==
                      IF /\ last.call = "_connectAccessGroupCreate"
                         /\ tipHeight >= DeSoAccessGroupsBlockHeight
                      THEN GetAccessGroupOperation(last.txn).err
                      ELSE NoError
              IN (IsLive(existing) /\ existing.AccessPublicKey # pk)
                     => /\ last.err = IF operationErr # NoError THEN operationErr
                                      ELSE "RuleErrorAccessPublicKeyCannotBeDifferent"
                        /\ LiveResults(bav) = LiveResults(last.pre)
    /\ last.call \in ConnectCalls \cup DisconnectCalls
           => \A k \in AccessGroupKeys :
                  LET old == GetAccessGroupKeyToAccessGroupEntryMapping(last.pre, k).val
                      new == GetAccessGroupKeyToAccessGroupEntryMapping(bav, k).val
                  IN (IsLive(old) /\ IsLive(new))
                         => new.AccessPublicKey = old.AccessPublicKey

\* Both transaction types rejected for a differing access public key over a
\* live entry: a rejected CreateAccessGroup or AccessGroupMembers.
AccessPublicKeyImmutableWitness ==
    /\ last.call \in {"_connectAccessGroupCreate", "_connectAccessGroupMembers"}
    /\ last.err = "RuleErrorAccessPublicKeyCannotBeDifferent"
    /\ last.txn.AccessPublicKey = PkQ
    /\ IsLive(MapGet(last.pre.AccessGroupKeyToAccessGroupEntry,
                     NewAccessGroupKey(PkA, NameOne)))

\* C15: after an accepted CreateAccessGroup with the AddMembers operation at
\* a height from the access groups fork on, the member getter returns the
\* record of every member the transaction lists, in the view the connect
\* left.
CreateAddMembersWritesMembershipIndex ==
    (/\ last.call = "_connectAccessGroupCreate"
     /\ last.err = NoError
     /\ tipHeight >= DeSoAccessGroupsBlockHeight
     /\ GetAccessGroupOperation(last.txn).val = "AccessGroupOperationAddMembers")
        => LET key == ResolveAccessGroupKey(last.txn.PublicKey, last.txn.AccessPublicKey,
                                            last.txn.AccessGroupKeyName)
           IN \A i \in 1..Len(last.txn.AccessGroupMembers) :
                  GetAccessGroupMember(bav, last.txn.AccessGroupMembers[i].GroupMemberPublicKey,
                                       key[1], key[2]).val
                      = last.txn.AccessGroupMembers[i]

\* The last call is a connect on one of the paths that add members: a
\* CreateAccessGroup with the AddMembers operation, which is every one before
\* the access groups fork, or an AccessGroupMembers with the Add operation.
LastCallAddsMembers ==
    \/ /\ last.call = "_connectAccessGroupCreate"
       /\ \/ tipHeight < DeSoAccessGroupsBlockHeight
          \/ GetAccessGroupOperation(last.txn).val = "AccessGroupOperationAddMembers"
    \/ /\ last.call = "_connectAccessGroupMembers"
       /\ last.txn.AccessGroupMemberOperationType = "AccessGroupMemberOperationTypeAdd"

\* The member is in the group of the key in the view: in the membership
\* index or in the member list of the group entry.
IsMemberIn(v, key, memberPublicKey) ==
    \/ IsLive(GetAccessGroupMember(v, memberPublicKey, key[1], key[2]).val)
    \/ LET e == GetAccessGroupKeyToAccessGroupEntryMapping(v, key).val
       IN /\ IsLive(e)
          /\ \E j \in 1..Len(e.DEPRECATED_AccessGroupMembers) :
                 e.DEPRECATED_AccessGroupMembers[j].GroupMemberPublicKey = memberPublicKey

\* C16: on every path that adds members, a transaction that lists a member
\* twice or lists a public key that is already a member of the group is not
\* accepted.
DuplicateMemberRejected ==
    LastCallAddsMembers
        => LET key == ResolveAccessGroupKey(last.txn.PublicKey, last.txn.AccessPublicKey,
                                            last.txn.AccessGroupKeyName)
               list == last.txn.AccessGroupMembers
           IN (\/ \E i, j \in 1..Len(list) :
                      i # j /\ list[i].GroupMemberPublicKey = list[j].GroupMemberPublicKey
               \/ \E i \in 1..Len(list) :
                      IsMemberIn(last.pre, key, list[i].GroupMemberPublicKey))
                  => last.err # NoError

\* C17: before the access groups fork, for a group transaction that got past
\* the basic transfer and whose access public key is not other than that of
\* a live entry under its key: with a live entry and no members listed the
\* connect returns DoesntAddMembers; with a listed member whose public key is
\* the access public key of the group the transaction is not accepted; and
\* when it is accepted the member list of the stored entry is the list of the
\* entry before, if it was live, followed by the listed members in the order
\* of the transaction.
AddMembersBeforeFork ==
    (/\ last.call \in {"_connectAccessGroupCreate", "_connectMessagingGroup"}
     /\ tipHeight < DeSoAccessGroupsBlockHeight
     /\ last.basic = "connected")
        => LET key == ResolveAccessGroupKey(last.txn.PublicKey, last.txn.AccessPublicKey,
                                            last.txn.AccessGroupKeyName)
               pk == ResolveAccessPublicKey(last.txn.AccessPublicKey,
                                            last.txn.AccessGroupKeyName)
               existing == GetAccessGroupKeyToAccessGroupEntryMapping(last.pre, key).val
               old == IF IsLive(existing) THEN existing.DEPRECATED_AccessGroupMembers
                      ELSE <<>>
               new == last.txn.AccessGroupMembers
           IN /\ (/\ IsLive(existing)
                  /\ existing.AccessPublicKey = pk
                  /\ Len(new) = 0)
                     => last.err \in {"RuleErrorAccessKeyDoesntAddMembers",
                                      "RuleErrorMessagingKeyDoesntAddMembers"}
              /\ (\E i \in 1..Len(new) : new[i].GroupMemberPublicKey = pk)
                     => last.err # NoError
              /\ last.err = NoError
                     => /\ Len(new) > 0 \/ ~IsLive(existing)
                        /\ GetAccessGroupKeyToAccessGroupEntryMapping(bav, key).val
                               .DEPRECATED_AccessGroupMembers = old \o new

\* An accepted transaction before the fork that adds a member to a group
\* with a member, after which the entry lists both in order.
AddMembersBeforeForkWitness ==
    /\ last.call = "_connectAccessGroupCreate"
    /\ tipHeight < DeSoAccessGroupsBlockHeight
    /\ last.err = NoError
    /\ Len(last.txn.AccessGroupMembers) = 1
    /\ LET key == NewAccessGroupKey(PkA, NameOne)
       IN /\ IsLive(MapGet(last.pre.AccessGroupKeyToAccessGroupEntry, key))
          /\ Len(last.pre.AccessGroupKeyToAccessGroupEntry[key]
                     .DEPRECATED_AccessGroupMembers) = 1
          /\ Len(bav.AccessGroupKeyToAccessGroupEntry[key]
                     .DEPRECATED_AccessGroupMembers) = 2

\* The admitting group of a member, under the member's public key and key
\* name, as the view reads it.
AdmittingGroup(v, accessMember) ==
    GetAccessGroupKeyToAccessGroupEntryMapping(v,
        NewAccessGroupKey(accessMember.GroupMemberPublicKey,
                          accessMember.GroupMemberKeyName)).val

\* The last call is a connect on a path that adds members and came to the
\* checks of the members: it got past the basic transfer and the read of the
\* operation, the access public key is not other than that of a live entry,
\* and the group exists where AccessGroupMembers needs it.
LastCallValidatesMembers ==
    /\ LastCallAddsMembers
    /\ last.basic = "connected"
    /\ last.err \notin {"RuleErrorAccessPublicKeyCannotBeDifferent",
                        "RuleErrorAccessKeyDoesntExist"}
    /\ Len(last.txn.AccessGroupMembers) > 0

\* C18: on every path that adds members, a transaction with a member whose
\* encrypted key is shorter than 32 bytes, or whose admitting group is not
\* registered or is deleted, is not accepted; the first member decides the
\* error when the connect comes to the checks of the members: a key of 31
\* bytes gives MemberEncryptedKeyTooShort, and a key of 32 bytes with no
\* live admitting group gives MemberKeyDoesntExist; members with keys of 32
\* bytes and live admitting groups get neither error, and an admitting group
\* under the base name is always live.
MemberKeyAndAdmittingGroup ==
    /\ \A m \in {MemberB, MemberA, MemberP} : IsLive(AdmittingGroup(bav, m))
    /\ LastCallAddsMembers
        => LET list == last.txn.AccessGroupMembers
               short(m) == Len(m.EncryptedKey) < PrivKeyBytesLen
               missing(m) == ~IsLive(AdmittingGroup(last.pre, m))
           IN /\ (\E i \in 1..Len(list) : short(list[i]) \/ missing(list[i]))
                     => last.err # NoError
              /\ (LastCallValidatesMembers /\ short(list[1]))
                     => /\ Len(list[1].EncryptedKey) = PrivKeyBytesLen - 1
                        /\ last.err = "RuleErrorAccessMemberEncryptedKeyTooShort"
              /\ (LastCallValidatesMembers /\ ~short(list[1]) /\ missing(list[1]))
                     => last.err = "RuleErrorAccessMemberKeyDoesntExist"
              /\ (\A i \in 1..Len(list) : ~short(list[i]) /\ ~missing(list[i]))
                     => last.err \notin {"RuleErrorAccessMemberEncryptedKeyTooShort",
                                         "RuleErrorAccessMemberKeyDoesntExist"}

\* A member with a key of 32 bytes admitted under a registered group that is
\* not the base group, by an accepted AccessGroupMembers transaction.
MemberKeyAndAdmittingGroupWitness ==
    /\ last.call = "_connectAccessGroupMembers"
    /\ last.err = NoError
    /\ last.txn.AccessGroupMembers = <<MemberBOne>>
    /\ Len(MemberBOne.EncryptedKey) = PrivKeyBytesLen
    /\ IsLive(AdmittingGroup(last.pre, MemberBOne))

\* The last call is a connect of a CreateAccessGroup with the MuteMembers
\* operation from the access groups fork on that came to the checks of the
\* targets: the group of its key is live and has its access public key.
LastCallMutesMembers ==
    /\ last.call = "_connectAccessGroupCreate"
    /\ tipHeight >= DeSoAccessGroupsBlockHeight
    /\ last.basic = "connected"
    /\ GetAccessGroupOperation(last.txn) =
           [val |-> "AccessGroupOperationMuteMembers", err |-> NoError]
    /\ LET e == GetAccessGroupKeyToAccessGroupEntryMapping(last.pre, TouchedKey(last.txn)).val
       IN /\ IsLive(e)
          /\ e.AccessPublicKey = ResolveAccessPublicKey(last.txn.AccessPublicKey,
                                                        last.txn.AccessGroupKeyName)

\* C19: in every view the IsMuted attribute of the owner of a group, as a
\* member of that group, does not read as set; a MuteMembers transaction
\* that lists the owner of the group is not accepted, and when the owner is
\* its first target it is rejected with OwnerMutingSelf.
OwnerNeverMuted ==
    /\ \A o \in GroupOwners :
           ~ReadsAsSet(GetGroupMemberAttributeEntry(bav,
                           NewGroupEnumerationKey(o, NameOne, o),
                           AccessGroupMemberAttributeIsMuted))
    /\ LastCallMutesMembers
           => LET list == last.txn.AccessGroupMembers
                  owner == TouchedKey(last.txn)[1]
              IN /\ (\E i \in 1..Len(list) : list[i].GroupMemberPublicKey = owner)
                        => last.err # NoError
                 /\ (Len(list) > 0 /\ list[1].GroupMemberPublicKey = owner)
                        => last.err = "RuleErrorAccessGroupOwnerMutingSelf"

\* The owner A of a live group named as the target of a MuteMembers
\* transaction, which is rejected.
OwnerNeverMutedWitness ==
    /\ LastCallMutesMembers
    /\ last.txn.AccessGroupMembers = <<MemberA>>
    /\ TouchedKey(last.txn)[1] = PkA
    /\ last.err = "RuleErrorAccessGroupOwnerMutingSelf"

\* The member record of a target in the group of the transaction, as the
\* view before the call reads it.
TargetMember(txn, member) ==
    GetAccessGroupMember(last.pre, member.GroupMemberPublicKey,
                         TouchedKey(txn)[1], TouchedKey(txn)[2]).val

\* C20: from the access groups fork on, a CreateAccessGroup with the
\* MuteMembers operation is accepted only when the group of its key is live
\* and every target is in the membership index of the group with an IsMuted
\* attribute that does not read as set, and after it the IsMuted attribute of
\* every target reads as set; past the basic transfer, a group that is not
\* live gives GroupDoesntExist, and a first target other than the owner gives
\* MemberNotInGroup when it is not in the membership index and AlreadyMuted
\* when it is and its IsMuted attribute is set.
MuteMembersAccepted ==
    (/\ last.call = "_connectAccessGroupCreate"
     /\ tipHeight >= DeSoAccessGroupsBlockHeight
     /\ GetAccessGroupOperation(last.txn) =
            [val |-> "AccessGroupOperationMuteMembers", err |-> NoError])
        => LET list == last.txn.AccessGroupMembers
               existing == GetAccessGroupKeyToAccessGroupEntryMapping(
                               last.pre, TouchedKey(last.txn)).val
               first == list[1]
           IN /\ last.err = NoError
                     => /\ IsLive(existing)
                        /\ \A i \in 1..Len(list) :
                               /\ TargetMember(last.txn, list[i]) # Nil
                               /\ ~ReadsAsSet(IsMutedAttribute(last.pre, last.txn, list[i]))
                               /\ ReadsAsSet(IsMutedAttribute(bav, last.txn, list[i]))
                               /\ IsMutedAttribute(bav, last.txn, list[i]).IsSet
              /\ (last.basic = "connected" /\ ~IsLive(existing))
                     => last.err = "RuleErrorAccessGroupDoesntExist"
              /\ (/\ LastCallMutesMembers
                  /\ Len(list) > 0
                  /\ first.GroupMemberPublicKey # TouchedKey(last.txn)[1])
                     => IF TargetMember(last.txn, first) = Nil
                        THEN last.err = "RuleErrorAccessMemberNotInGroup"
                        ELSE IF ReadsAsSet(IsMutedAttribute(last.pre, last.txn, first))
                        THEN last.err = "RuleErrorAccessMemberAlreadyMuted"
                        ELSE Len(list) = 1 => last.err = NoError

\* An accepted MuteMembers transaction on a member of a live group whose
\* IsMuted attribute was not set and now reads as set.
MuteMembersAcceptedWitness ==
    /\ LastCallMutesMembers
    /\ last.err = NoError
    /\ last.txn.AccessGroupMembers = <<MemberB>>
    /\ TargetMember(last.txn, MemberB) # Nil
    /\ ~ReadsAsSet(IsMutedAttribute(last.pre, last.txn, MemberB))
    /\ ReadsAsSet(IsMutedAttribute(bav, last.txn, MemberB))

\* The last call is a connect of a CreateAccessGroup with the UnmuteMembers
\* operation from the access groups fork on that came to the checks of the
\* targets: the group of its key is live and has its access public key.
LastCallUnmutesMembers ==
    /\ last.call = "_connectAccessGroupCreate"
    /\ tipHeight >= DeSoAccessGroupsBlockHeight
    /\ last.basic = "connected"
    /\ GetAccessGroupOperation(last.txn) =
           [val |-> "AccessGroupOperationUnmuteMembers", err |-> NoError]
    /\ LET e == GetAccessGroupKeyToAccessGroupEntryMapping(last.pre, TouchedKey(last.txn)).val
       IN /\ IsLive(e)
          /\ e.AccessPublicKey = ResolveAccessPublicKey(last.txn.AccessPublicKey,
                                                        last.txn.AccessGroupKeyName)

UnknownOperationRejected ==
    (/\ last.call \in {"_connectAccessGroupCreate", "_connectMessagingGroup"}
     /\ tipHeight >= DeSoAccessGroupsBlockHeight
     /\ last.basic = "connected"
     /\ GetAccessGroupOperation(last.txn).val \notin
            {"AccessGroupOperationAddMembers", "AccessGroupOperationMuteMembers",
             "AccessGroupOperationUnmuteMembers"})
        => /\ last.err # NoError
           /\ LiveResults(bav) = LiveResults(last.pre)

\* The last call is a connect of an AccessGroupMembers transaction that came
\* to the switch on its operation type: it got past the basic transfer, and
\* the group of its key is live and has its access public key.
LastCallReachedMembersSwitch ==
    /\ last.call = "_connectAccessGroupMembers"
    /\ last.basic = "connected"
    /\ LET e == GetAccessGroupKeyToAccessGroupEntryMapping(last.pre, TouchedKey(last.txn)).val
       IN /\ IsLive(e)
          /\ e.AccessPublicKey = ResolveAccessPublicKey(last.txn.AccessPublicKey,
                                                        last.txn.AccessGroupKeyName)

\* C23: an AccessGroupMembers transaction whose operation type is not Add is
\* not accepted and returns no operation record; the membership index and
\* the attributes of the view are as before and every getter reads as
\* before; when the connect comes to the switch on the operation type the
\* error is NotSupported.
MembersRemoveNotSupported ==
    (/\ last.call = "_connectAccessGroupMembers"
     /\ last.txn.AccessGroupMemberOperationType # "AccessGroupMemberOperationTypeAdd")
        => /\ last.err # NoError
           /\ bav.GroupMembershipKeyToAccessGroupMember
                  = last.pre.GroupMembershipKeyToAccessGroupMember
           /\ bav.GroupMemberAttributes = last.pre.GroupMemberAttributes
           /\ bav.GroupEntryAttributes = last.pre.GroupEntryAttributes
           /\ LiveResults(bav) = LiveResults(last.pre)
           /\ LastCallReachedMembersSwitch
                  => last.err = "RuleErrorAccessGroupMemberOperationTypeNotSupported"

\* A Remove of a member of a live group that is in its membership index,
\* rejected at the switch.
MembersRemoveNotSupportedWitness ==
    /\ LastCallReachedMembersSwitch
    /\ last.txn.AccessGroupMemberOperationType = "AccessGroupMemberOperationTypeRemove"
    /\ last.err = "RuleErrorAccessGroupMemberOperationTypeNotSupported"
    /\ GetAccessGroupMember(last.pre, PkB, PkA, NewGroupKeyName(NameOne)).val # Nil

\* C24: an AccessGroupMembers transaction with the Add operation is accepted
\* only when the group under its key, after the remapping of G, is live and
\* has the access public key of the transaction; after an accepted one the
\* member getter returns each listed member under the owner and the name of
\* the group, and the group getter returns at every key what it returned
\* before.
MembersAddWritesIndexOnly ==
    (/\ last.call = "_connectAccessGroupMembers"
     /\ last.txn.AccessGroupMemberOperationType = "AccessGroupMemberOperationTypeAdd"
     /\ last.err = NoError)
        => LET key == TouchedKey(last.txn)
               existing == GetAccessGroupKeyToAccessGroupEntryMapping(last.pre, key).val
               list == last.txn.AccessGroupMembers
           IN /\ IsLive(existing)
              /\ existing.AccessPublicKey =
                     ResolveAccessPublicKey(last.txn.AccessPublicKey,
                                            last.txn.AccessGroupKeyName)
              /\ \A i \in 1..Len(list) :
                     \E j \in 1..Len(list) :
                         /\ list[j].GroupMemberPublicKey = list[i].GroupMemberPublicKey
                         /\ GetAccessGroupMember(bav, list[i].GroupMemberPublicKey,
                                                 existing.GroupOwnerPublicKey,
                                                 existing.AccessGroupKeyName).val = list[j]
              /\ existing.GroupOwnerPublicKey = key[1]
              /\ existing.AccessGroupKeyName = key[2]
              /\ \A k \in BaseAndNamedKeys :
                     GetAccessGroupKeyToAccessGroupEntryMapping(bav, k).val
                         = GetAccessGroupKeyToAccessGroupEntryMapping(last.pre, k).val

\* An accepted Add to an unencrypted group, whose member is in the
\* membership index under the owner G.
MembersAddWritesIndexOnlyWitness ==
    /\ last.call = "_connectAccessGroupMembers"
    /\ last.err = NoError
    /\ last.txn.AccessPublicKey = GetS256BasePointCompressed
    /\ last.txn.AccessGroupMembers = <<MemberB>>
    /\ GetAccessGroupMember(last.pre, PkB, GetS256BasePointCompressed,
                            NewGroupKeyName(NameOne)).val = Nil
    /\ GetAccessGroupMember(bav, PkB, GetS256BasePointCompressed,
                            NewGroupKeyName(NameOne)).val = MemberB

\* The too-early error of each connect function.
BeforeBlockHeightError(call) ==
    CASE call = "_connectAccessGroupCreate" -> "RuleErrorAccessKeyBeforeBlockHeight"
      [] call = "_connectMessagingGroup" -> "RuleErrorMessagingKeyBeforeBlockHeight"
      [] OTHER -> "RuleErrorAccessGroupsBeforeBlockHeight"

\* C25: below the V3 messages fork every connect function rejects every
\* transaction, well-formed or not, with its too-early error, without
\* connecting the basic transfer, returning no operation record and leaving
\* the view as it was.
TooEarlyIsFirstCheck ==
    (last.call \in ConnectCalls /\ tipHeight < DeSoV3MessagesBlockHeight)
        => /\ last.err = BeforeBlockHeightError(last.call)
           /\ last.basic = "none"
           /\ bav = last.pre
           /\ chain = <<>>

\* A transaction with a name that is too long, rejected below the fork
\* with the too-early error and not the error of its name.
TooEarlyIsFirstCheckWitness ==
    /\ last.call = "_connectAccessGroupMembers"
    /\ tipHeight < DeSoV3MessagesBlockHeight
    /\ last.txn.AccessGroupKeyName = NameLong
    /\ last.err = "RuleErrorAccessGroupsBeforeBlockHeight"

\* C26: below the access groups fork an AccessGroupMembers or
\* AccessGroupAttributes transaction is not accepted, and the membership
\* index and the attributes read as before.
DedicatedTransactionsGated ==
    (/\ last.call \in {"_connectAccessGroupMembers", "_connectAccessGroupAttributes"}
     /\ tipHeight < DeSoAccessGroupsBlockHeight)
        => /\ last.err # NoError
           /\ LiveResults(bav) = LiveResults(last.pre)

\* C27: below the access groups fork a group transaction that names the
\* default key name and whose owner signature does not verify is not
\* accepted and every getter reads as before; when it is otherwise well
\* formed, at a height from the V3 messages fork on, the error is
\* SignatureInvalid.
UnsignedDefaultKeyRejected ==
    (/\ last.call \in {"_connectAccessGroupCreate", "_connectMessagingGroup"}
     /\ tipHeight < DeSoAccessGroupsBlockHeight
     /\ EqualGroupKeyName(NewGroupKeyName(last.txn.AccessGroupKeyName), DefaultGroupKeyName)
     /\ _verifyBytesSignature(last.txn) # NoError)
        => /\ last.err # NoError
           /\ LiveResults(bav) = LiveResults(last.pre)
           /\ (/\ tipHeight >= DeSoV3MessagesBlockHeight
               /\ last.txn.AccessPublicKey = PkP
               /\ last.txn.PublicKey = PkA)
                  => last.err \in {"RuleErrorMessagingSignatureInvalid",
                                   "RuleErrorAccessGroupSignatureInvalid"}

\* The last call is a connect of a CreateAccessGroup that came to the write
\* of the entry: it was accepted with one of the three operations.
LastCallWroteGroupEntry ==
    /\ last.call = "_connectAccessGroupCreate"
    /\ last.err = NoError
    /\ \/ tipHeight < DeSoAccessGroupsBlockHeight
       \/ GetAccessGroupOperation(last.txn).val \in
              {"AccessGroupOperationAddMembers", "AccessGroupOperationMuteMembers",
               "AccessGroupOperationUnmuteMembers"}

\* C28: after an accepted CreateAccessGroup whose access public key is G the
\* entry is under the owner G and the padded name, and the group of the
\* signer under that name reads as before; otherwise the entry is under the
\* signer with the access public key of the transaction; and a transaction
\* with the access public key G that names a live group of the owner G, by
\* whatever signer and in whatever bytes that pad to the name of the group,
\* carries the access public key of that group after the remapping and is
\* not rejected for a differing key.
UnencryptedGroupRemapping ==
    /\ LastCallWroteGroupEntry
           => LET name == NewGroupKeyName(last.txn.AccessGroupKeyName)
                  underG == GetAccessGroupKeyToAccessGroupEntryMapping(bav,
                                <<GetS256BasePointCompressed, name>>).val
                  underSigner(v) == GetAccessGroupKeyToAccessGroupEntryMapping(v,
                                        <<last.txn.PublicKey, name>>).val
              IN IF last.txn.AccessPublicKey = GetS256BasePointCompressed
                 THEN /\ IsLive(underG)
                      /\ underG.GroupOwnerPublicKey = GetS256BasePointCompressed
                      /\ underG.AccessGroupKeyName = name
                      /\ underG.AccessPublicKey # GetS256BasePointCompressed
                      /\ last.txn.PublicKey # GetS256BasePointCompressed
                             => underSigner(bav) = underSigner(last.pre)
                 ELSE /\ IsLive(underSigner(bav))
                      /\ underSigner(bav).GroupOwnerPublicKey = last.txn.PublicKey
                      /\ underSigner(bav).AccessPublicKey = last.txn.AccessPublicKey
    /\ (/\ last.call = "_connectAccessGroupCreate"
        /\ last.basic = "connected"
        /\ last.txn.AccessPublicKey = GetS256BasePointCompressed)
           => LET existing == GetAccessGroupKeyToAccessGroupEntryMapping(
                                  last.pre, TouchedKey(last.txn)).val
              IN IsLive(existing)
                     => /\ existing.AccessPublicKey =
                               ResolveAccessPublicKey(last.txn.AccessPublicKey,
                                                      last.txn.AccessGroupKeyName)
                        /\ last.err # "RuleErrorAccessPublicKeyCannotBeDifferent"

----------------------------------------------------------------------------
(* Enumerating the groups of a user *)

\* Whether userPublicKey is a live member of the group of entry at
\* blockHeight: by the membership index from the fork, by the list kept in
\* the entry before it.
IsLiveMemberAt(v, entry, userPublicKey, blockHeight) ==
    IF blockHeight >= DeSoAccessGroupsBlockHeight
    THEN IsLive(GetAccessGroupMember(v, userPublicKey, entry.GroupOwnerPublicKey,
                                     entry.AccessGroupKeyName).val)
    ELSE \E i \in DOMAIN entry.DEPRECATED_AccessGroupMembers :
             entry.DEPRECATED_AccessGroupMembers[i].GroupMemberPublicKey = userPublicKey

EntryKey(entry) == <<entry.GroupOwnerPublicKey, entry.AccessGroupKeyName>>

NoTombstoneEnumerated(userPublicKey, blockHeight) ==
    \A e \in GetAccessGroupEntriesForUser(bav, userPublicKey, blockHeight).val :
        ~e.isDeleted

OnlyOwnedOrJoinedEnumerated(userPublicKey, blockHeight) ==
    \A e \in GetAccessGroupEntriesForUser(bav, userPublicKey, blockHeight).val :
        \/ e.GroupOwnerPublicKey = userPublicKey
        \/ IsLiveMemberAt(bav, e, userPublicKey, blockHeight)

OverlayEntryEnumerated(userPublicKey, blockHeight) ==
    \A e \in GetAccessGroupEntriesForUser(bav, userPublicKey, blockHeight).val :
        EntryKey(e) \in DOMAIN bav.AccessGroupKeyToAccessGroupEntry
            => e = bav.AccessGroupKeyToAccessGroupEntry[EntryKey(e)]

EveryOwnedOrJoinedEnumerated(userPublicKey, blockHeight) ==
    \A k \in DOMAIN bav.AccessGroupKeyToAccessGroupEntry \cup DOMAIN db.groups :
        LET e == GetAccessGroupKeyToAccessGroupEntryMapping(bav, k).val
        IN (/\ IsLive(e)
            /\ \/ e.GroupOwnerPublicKey = userPublicKey
               \/ IsLiveMemberAt(bav, e, userPublicKey, blockHeight))
               => e \in GetAccessGroupEntriesForUser(bav, userPublicKey, blockHeight).val

\* C29: for every user, the enumeration at the height of the tip returns
\* exactly the non-tombstoned groups in which the user is owner or member:
\* no tombstone, no group in which the user is neither owner nor a live
\* member, the overlay entry where a key is in the overlay and in the
\* store, and every live group the user owns or is a live member of.
EnumerateForUserExact ==
    \A userPublicKey \in MemberKeys :
        /\ NoTombstoneEnumerated(userPublicKey, tipHeight)
        /\ OnlyOwnedOrJoinedEnumerated(userPublicKey, tipHeight)
        /\ OverlayEntryEnumerated(userPublicKey, tipHeight)
        /\ EveryOwnedOrJoinedEnumerated(userPublicKey, tipHeight)

----------------------------------------------------------------------------
(* Disconnecting a creation on an operation log that does not fit *)

GroupEntryKeysOf(v) ==
    AccessGroupKeys \cup DOMAIN v.AccessGroupKeyToAccessGroupEntry \cup DOMAIN db.groups

\* Whether the last call was a _disconnectAccessGroupCreate handed an
\* operation log of the caller's.
LastCallDisconnectsCreateWithOperations ==
    /\ last.call = "_disconnectAccessGroupCreate"
    /\ "utxoOps" \in DOMAIN last

OperationLogMissing == Len(last.utxoOps) = 0

LastOperationOfAnotherType ==
    /\ Len(last.utxoOps) > 0
    /\ last.utxoOps[Len(last.utxoOps)].Type # "OperationTypeCreateAccessGroup"

CurrentEntryAbsentOrTombstoned ==
    ~IsLive(GetAccessGroupKeyToAccessGroupEntryMapping(last.pre, TouchedKey(last.txn)).val)

PreviousEntryDiffers ==
    /\ Len(last.utxoOps) > 0
    /\ last.utxoOps[Len(last.utxoOps)].Type = "OperationTypeCreateAccessGroup"
    /\ ~CurrentEntryAbsentOrTombstoned
    /\ LET current == GetAccessGroupKeyToAccessGroupEntryMapping(
                          last.pre, TouchedKey(last.txn)).val
           prev == last.utxoOps[Len(last.utxoOps)].PrevAccessKeyEntry
       IN /\ prev # Nil
          /\ \/ prev.AccessPublicKey # current.AccessPublicKey
             \/ prev.GroupOwnerPublicKey # current.GroupOwnerPublicKey
             \/ prev.AccessGroupKeyName # current.AccessGroupKeyName

\* C30: _disconnectAccessGroupCreate fails, and every group entry reads as
\* before, when the operation log is empty, when its last record is not of
\* the CreateAccessGroup type, when the current entry under the touched key
\* is absent or tombstoned, or when the recorded previous entry differs from
\* the current entry in access public key, owner or group name.
DisconnectCreateFailsUnchanged ==
    (/\ LastCallDisconnectsCreateWithOperations
     /\ \/ OperationLogMissing
        \/ LastOperationOfAnotherType
        \/ CurrentEntryAbsentOrTombstoned
        \/ PreviousEntryDiffers)
        => /\ last.err # NoError
           /\ \A k \in GroupEntryKeysOf(bav) \cup GroupEntryKeysOf(last.pre) :
                  GetAccessGroupKeyToAccessGroupEntryMapping(bav, k).val
                      = GetAccessGroupKeyToAccessGroupEntryMapping(last.pre, k).val

DisconnectCreateFailsUnchangedWitness ==
    /\ LastCallDisconnectsCreateWithOperations
    /\ PreviousEntryDiffers
    /\ last.err = "this key was already deleted"

----------------------------------------------------------------------------
(* The operation log *)

OperationTypeOf(txn) ==
    CASE txn.TxnType = "TxnTypeCreateAccessGroup" -> "OperationTypeCreateAccessGroup"
      [] txn.TxnType = "TxnTypeAccessGroupMembers" -> "OperationTypeAccessGroupMembers"
      [] txn.TxnType = "TxnTypeMessagingGroup" -> "OperationTypeMessagingKey"
      [] OTHER -> "OperationTypeAccessGroupAttributes"

\* The log is the records of the basic transfer with one record of the
\* transaction's own type after them.
IsLogOf(txn, utxoOps) ==
    /\ Len(utxoOps) = Len(BasicTransferOps) + 1
    /\ SubSeq(utxoOps, 1, Len(BasicTransferOps)) = BasicTransferOps
    /\ utxoOps[Len(utxoOps)].Type = OperationTypeOf(txn)

\* C31: every successful connect returns the records of the basic transfer
\* followed by exactly one record of the transaction's own operation type,
\* and the disconnect of the transaction hands the basic-transfer disconnect
\* the records before that last one and nothing else.
OperationLogIsLifo ==
    /\ (last.call \in ConnectCalls /\ last.err = NoError)
           => /\ chain # <<>>
              /\ chain[Len(chain)].txn = last.txn
              /\ IsLogOf(last.txn, chain[Len(chain)].utxoOps)
    /\ last.call \in DisconnectCalls
           => last.err # "_disconnectBasicTransfer: not an operation of the basic transfer"

----------------------------------------------------------------------------
(* Extra data of a group entry *)

\* The entry under the key of the last transaction, before and after it.
TouchedEntry(v) == GetAccessGroupKeyToAccessGroupEntryMapping(v, TouchedKey(last.txn)).val

LastCallMergedExtraData ==
    /\ LastCallWroteGroupEntry
    /\ tipHeight >= ExtraDataOnEntriesBlockHeight

\* C32: from ExtraDataOnEntriesBlockHeight on, the entry a CreateAccessGroup
\* writes holds every pair of the transaction, every pair of a live existing
\* entry whose key the transaction does not carry, and nothing else; a
\* tombstoned existing entry gives nothing.
ExtraDataMerged ==
    LastCallMergedExtraData
        => LET old == IF IsLive(TouchedEntry(last.pre))
                      THEN TouchedEntry(last.pre).ExtraData ELSE {}
               kept == {p \in old : \A q \in last.txn.ExtraData : q[1] # p[1]}
           IN TouchedEntry(bav).ExtraData = last.txn.ExtraData \cup kept

\* A transaction's value replaced the existing entry's value of the same key.
ExtraDataMergedWitness ==
    /\ LastCallMergedExtraData
    /\ IsLive(TouchedEntry(last.pre))
    /\ \E p \in TouchedEntry(last.pre).ExtraData, q \in last.txn.ExtraData :
           /\ p[1] = q[1] /\ p[2] # q[2]
           /\ q \in TouchedEntry(bav).ExtraData
           /\ p \notin TouchedEntry(bav).ExtraData

----------------------------------------------------------------------------
(* Muting and attributes on a group that does not exist *)

AttributesUnchanged ==
    /\ bav.GroupMemberAttributes = last.pre.GroupMemberAttributes
    /\ bav.GroupEntryAttributes = last.pre.GroupEntryAttributes

\* A MuteMembers or UnmuteMembers that came to the operation switch with no
\* live group under its key.
MuteOnMissingGroup ==
    /\ last.call = "_connectAccessGroupCreate"
    /\ last.basic = "connected"
    /\ tipHeight >= DeSoAccessGroupsBlockHeight
    /\ GetAccessGroupOperation(last.txn).val \in
           {"AccessGroupOperationMuteMembers", "AccessGroupOperationUnmuteMembers"}
    /\ ~IsLive(TouchedEntry(last.pre))

\* An AccessGroupAttributes transaction that came past the basic transfer
\* with no live group under the group key of its holder key.
AttributesOnMissingGroup ==
    /\ last.call = "_connectAccessGroupAttributes"
    /\ last.basic = "connected"
    /\ ~IsLive(GetAccessGroupKeyToAccessGroupEntryMapping(last.pre,
                   <<last.txn.AttributeHolderKey.key[1],
                     last.txn.AttributeHolderKey.key[2]>>).val)

\* C33: a mute and an AccessGroupAttributes transaction whose group is absent
\* or tombstoned are rejected with GroupDoesntExist and change no attribute.
MissingGroupRejected ==
    (MuteOnMissingGroup \/ AttributesOnMissingGroup)
        => /\ last.err = "RuleErrorAccessGroupDoesntExist"
           /\ AttributesUnchanged

----------------------------------------------------------------------------
(* Key-name length limits *)

\* The last call connected a create or a members transaction, at a height
\* where its type is accepted, whose access public key is a valid public key.
LastCallCarriedName ==
    /\ \/ /\ last.call = "_connectAccessGroupCreate"
          /\ last.txn.TxnType = "TxnTypeCreateAccessGroup"
       \/ /\ last.call = "_connectAccessGroupMembers"
          /\ last.txn.TxnType = "TxnTypeAccessGroupMembers"
    /\ tipHeight >= DeSoAccessGroupsBlockHeight
    /\ IsByteArrayValidPublicKey(last.txn.AccessPublicKey) = NoError

NameLengthErrors == {"RuleErrorAccessKeyNameTooShort", "RuleErrorAccessKeyNameTooLong"}

\* ValidateGroupPublicKeyAndName on names of length 0, 33 and 32.
ValidateChecksNameLength ==
    \A pk \in {PkA, PkP, GetS256BasePointCompressed} :
        /\ ValidateGroupPublicKeyAndName(pk, NameEmpty) = "RuleErrorAccessKeyNameTooShort"
        /\ ValidateGroupPublicKeyAndName(pk, NameLong) = "RuleErrorAccessKeyNameTooLong"
        /\ ValidateGroupPublicKeyAndName(pk, NameFull) = NoError

FullNameAccepted ==
    /\ LastCallCarriedName
    /\ Len(last.txn.AccessGroupKeyName) = MaxAccessKeyNameCharacters
    /\ last.call = "_connectAccessGroupCreate"
    /\ last.err = NoError

----------------------------------------------------------------------------
(* The view's delete operations applied by a caller *)

\* The membership keys the view can see: those of the overlay and those of
\* the durable store.
VisibleMembershipKeys ==
    DOMAIN bav.GroupMembershipKeyToAccessGroupMember \cup DOMAIN db.members

\* _deleteAccessGroupMember is called with a member the view returns live
\* and with the owner and name the member was read under.
DeleteAccessGroupMember ==
    /\ last.err = NoError
    /\ calls < MaxCalls
    /\ calls' = calls + 1
    /\ \E key \in VisibleMembershipKeys :
       \E r \in {GetAccessGroupMember(bav, key[1], key[2], key[3])} :
          /\ IsLive(r.val)
          /\ bav' = _deleteAccessGroupMember(r.bav, r.val, key[2], key[3])
          /\ last' = [call |-> "_deleteAccessGroupMember", txn |-> Nil, err |-> NoError,
                      basic |-> "none", pre |-> bav, immediate |-> FALSE, before |-> bav,
                      key |-> key]
    /\ UNCHANGED <<db, tipHeight, flushes, chain, start, mempool>>

\* The entries a caller hands to a delete of an attribute: the entry the
\* getter returns, when it is live, and a fresh entry, set or not set.
DeletableAttributeEntries(current) ==
    {NewAttributeEntry(TRUE, <<>>), NewAttributeEntry(FALSE, <<>>)}
        \cup (IF IsLive(current) THEN {current} ELSE {})

\* _deleteGroupMemberAttributeMapping is called for the muted attribute of a
\* member the view holds a record of, and _deleteGroupEntryAttributeMapping
\* for an attribute of a group the view returns.
DeleteAttributeMapping ==
    /\ last.err = NoError
    /\ calls < MaxCalls
    /\ calls' = calls + 1
    /\ \/ \E key \in VisibleMembershipKeys :
          \E k \in {<<key[2], key[3], key[1]>>} :
          \E e \in DeletableAttributeEntries(
                       GetGroupMemberAttributeEntry(bav, k, AccessGroupMemberAttributeIsMuted)) :
             /\ bav' = _deleteGroupMemberAttributeMapping(
                           bav, k, AccessGroupMemberAttributeIsMuted, e)
             /\ last' = [call |-> "_deleteGroupMemberAttributeMapping", txn |-> Nil,
                         err |-> NoError, basic |-> "none", pre |-> bav,
                         immediate |-> FALSE, before |-> bav,
                         key |-> k, attributeType |-> AccessGroupMemberAttributeIsMuted,
                         attributeEntry |-> e]
       \/ \E k \in AccessGroupKeys :
          \E e \in DeletableAttributeEntries(GetGroupEntryAttributeEntry(bav, k, 7)) :
             /\ IsLive(GetAccessGroupKeyToAccessGroupEntryMapping(bav, k).val)
             /\ bav' = _deleteGroupEntryAttributeMapping(bav, k, 7, e)
             /\ last' = [call |-> "_deleteGroupEntryAttributeMapping", txn |-> Nil,
                         err |-> NoError, basic |-> "none", pre |-> bav,
                         immediate |-> FALSE, before |-> bav,
                         key |-> k, attributeType |-> 7, attributeEntry |-> e]
    /\ UNCHANGED <<db, tipHeight, flushes, chain, start, mempool>>

\* The operation logs a caller may hand to _disconnectAccessGroupMembers
\* with txn: none, one whose last record is of another type, the log of the
\* connect, logs that differ from it in the encrypted key recorded for one
\* member, and one that holds a second members record where the operations
\* of the basic transfer belong.
MembersOperationLogs(txn) ==
    LET members == txn.AccessGroupMembers
        record(prev) == [Type |-> "OperationTypeAccessGroupMembers",
                         PrevAccessGroupMembers |-> prev]
        changed(i) == [members EXCEPT ![i].EncryptedKey = EncryptedKeyShort]
    IN {<<>>,
        Append(BasicTransferOps, [Type |-> "OperationTypeCreateAccessGroup",
                                  PrevAccessKeyEntry |-> Nil]),
        Append(BasicTransferOps, record(members)),
        <<record(members), record(members)>>}
       \cup {Append(BasicTransferOps, record(changed(i))) : i \in DOMAIN members}

\* _disconnectAccessGroupMembers is called with a transaction of the chain
\* and an operation log of the caller's; the log is recorded with the call.
\* It is the last call of a behaviour.
DisconnectAccessGroupMembersWithOperations ==
    /\ last.err = NoError
    /\ calls < MaxCalls
    /\ calls' = MaxCalls
    /\ \E txn \in {t \in MembersTxns : \E i \in DOMAIN chain : chain[i].txn = t} :
       \E utxoOps \in MembersOperationLogs(txn) :
       \E r \in {_disconnectAccessGroupMembers(bav, "OperationTypeAccessGroupMembers",
                                               txn, utxoOps)} :
          /\ bav' = r.bav
          /\ last' = [call |-> "_disconnectAccessGroupMembers", txn |-> txn, err |-> r.err,
                      basic |-> "none", pre |-> bav, immediate |-> FALSE, before |-> bav,
                      utxoOps |-> utxoOps]
    /\ UNCHANGED <<db, tipHeight, flushes, chain, start, mempool>>

\* Connects, flushes, the delete operations of the view and disconnects of
\* members transactions on operation logs that a connect did not record.
ViewNext ==
    \/ ConnectAccessGroupCreate
    \/ ConnectAccessGroupMembers
    \/ FlushToDbAndNewView
    \/ DeleteAccessGroupMember
    \/ DeleteAttributeMapping
    \/ DisconnectAccessGroupMembersWithOperations

ViewSpec == Init /\ [][ViewNext]_vars

\* The membership record of m in the touched group is a tombstone in the
\* overlay of the view v.
MemberTombstoned(v, key, m) ==
    /\ <<m, key[1], key[2]>> \in DOMAIN v.GroupMembershipKeyToAccessGroupMember
    /\ v.GroupMembershipKeyToAccessGroupMember[<<m, key[1], key[2]>>].isDeleted

\* A MuteMembers or UnmuteMembers came to the operation switch with a live
\* group while the record of a member it targets was a tombstone.
MuteOfTombstonedMember ==
    /\ last.call = "_connectAccessGroupCreate"
    /\ last.basic = "connected"
    /\ tipHeight >= DeSoAccessGroupsBlockHeight
    /\ GetAccessGroupOperation(last.txn).val \in
           {"AccessGroupOperationMuteMembers", "AccessGroupOperationUnmuteMembers"}
    /\ IsLive(TouchedEntry(last.pre))
    /\ last.txn.AccessPublicKey = TouchedEntry(last.pre).AccessPublicKey
    /\ \E i \in DOMAIN last.txn.AccessGroupMembers :
           /\ last.txn.AccessGroupMembers[i].GroupMemberPublicKey
                  # TouchedEntry(last.pre).GroupOwnerPublicKey
           /\ MemberTombstoned(last.pre, TouchedKey(last.txn),
                               last.txn.AccessGroupMembers[i].GroupMemberPublicKey)

\* A user whose only tie to an enumerated group is a tombstoned record: the
\* user does not own the group, and the durable store, which the enumeration
\* also queries, holds no record of the user in it.
EnumeratedOnTombstone(userPublicKey) ==
    \E e \in GetAccessGroupEntriesForUser(bav, userPublicKey, tipHeight).val :
        /\ e.GroupOwnerPublicKey # userPublicKey
        /\ MemberTombstoned(bav, EntryKey(e), userPublicKey)
        /\ <<userPublicKey, e.GroupOwnerPublicKey, e.AccessGroupKeyName>>
               \notin DOMAIN db.members

\* C35: a tombstoned membership record is not treated as membership: a
\* MuteMembers or UnmuteMembers that targets its member is rejected with
\* MemberNotInGroup, and the enumeration for that member does not return the
\* group on account of the record.
TombstonedMemberIsNoMember ==
    /\ MuteOfTombstonedMember => last.err = "RuleErrorAccessMemberNotInGroup"
    /\ tipHeight >= DeSoAccessGroupsBlockHeight
           => \A userPublicKey \in MemberKeys : ~EnumeratedOnTombstone(userPublicKey)

\* The two halves of it, apart.
TombstonedMemberNotMuted ==
    MuteOfTombstonedMember => last.err = "RuleErrorAccessMemberNotInGroup"

TombstonedMemberNotEnumerated ==
    tipHeight >= DeSoAccessGroupsBlockHeight
        => \A userPublicKey \in MemberKeys : ~EnumeratedOnTombstone(userPublicKey)

----------------------------------------------------------------------------
(* Attributes after a delete *)

\* An attribute entry as the callers of the getters read it: set when it is
\* there and its IsSet is true.
TakenAsSet(attributeEntry) == attributeEntry # Nil /\ attributeEntry.IsSet

\* What the getter of the map the last delete wrote to returns at its key.
DeletedAttributeNow ==
    IF last.call = "_deleteGroupMemberAttributeMapping"
    THEN GetGroupMemberAttributeEntry(bav, last.key, last.attributeType)
    ELSE GetGroupEntryAttributeEntry(bav, last.key, last.attributeType)

LastCallDeletedAttribute ==
    last.call \in {"_deleteGroupMemberAttributeMapping", "_deleteGroupEntryAttributeMapping"}

\* A MuteMembers came to the mute check of a member whose muted attribute is
\* a tombstone in the overlay.
MuteAfterAttributeDelete ==
    /\ last.call = "_connectAccessGroupCreate"
    /\ last.basic = "connected"
    /\ tipHeight >= DeSoAccessGroupsBlockHeight
    /\ GetAccessGroupOperation(last.txn).val = "AccessGroupOperationMuteMembers"
    /\ IsLive(TouchedEntry(last.pre))
    /\ \E i \in DOMAIN last.txn.AccessGroupMembers :
       \E k \in {<<NewGroupEnumerationKey(TouchedKey(last.txn)[1], TouchedKey(last.txn)[2],
                      last.txn.AccessGroupMembers[i].GroupMemberPublicKey),
                   AccessGroupMemberAttributeIsMuted>>} :
           /\ k \in DOMAIN last.pre.GroupMemberAttributes
           /\ last.pre.GroupMemberAttributes[k].isDeleted

\* C36: after a delete of an attribute the getter of its map returns nothing
\* or an entry that does not read as set, so that the mute check that follows
\* a delete of the muted attribute does not find the member already muted.
DeletedAttributeNotSet ==
    /\ LastCallDeletedAttribute => ~TakenAsSet(DeletedAttributeNow)
    /\ MuteAfterAttributeDelete => last.err # "RuleErrorAccessMemberAlreadyMuted"

DeletedAttributeGetterNotSet ==
    LastCallDeletedAttribute => ~TakenAsSet(DeletedAttributeNow)

DeletedAttributeNotMuted ==
    MuteAfterAttributeDelete => last.err # "RuleErrorAccessMemberAlreadyMuted"

----------------------------------------------------------------------------
(* The member list of an entry across a creation on an existing group *)

\* The public keys of the member list an entry holds.
EmbeddedMembers(entry) ==
    {entry.DEPRECATED_AccessGroupMembers[i].GroupMemberPublicKey :
        i \in DOMAIN entry.DEPRECATED_AccessGroupMembers}

\* The last call connected, at or above the access groups fork, a
\* CreateAccessGroup transaction on a group that was live before it.
CreateOnExistingGroupPostFork ==
    /\ last.call = "_connectAccessGroupCreate"
    /\ last.err = NoError
    /\ tipHeight >= DeSoAccessGroupsBlockHeight
    /\ IsLive(TouchedEntry(last.pre))

\* C37: a CreateAccessGroup transaction accepted at or above the access
\* groups fork on an existing group (AddMembers, MuteMembers, UnmuteMembers)
\* removes no member from the stored entry: the member list of the entry
\* after the connect holds every member of the list before it.
CreateKeepsEmbeddedMembers ==
    CreateOnExistingGroupPostFork
        => EmbeddedMembers(TouchedEntry(last.pre)) \subseteq EmbeddedMembers(TouchedEntry(bav))

\* The same below the fork, where the member list is extended.
CreateKeepsEmbeddedMembersPreFork ==
    (/\ last.call = "_connectAccessGroupCreate"
     /\ last.err = NoError
     /\ tipHeight < DeSoAccessGroupsBlockHeight
     /\ tipHeight >= DeSoV3MessagesBlockHeight
     /\ IsLive(TouchedEntry(last.pre)))
        => EmbeddedMembers(TouchedEntry(last.pre)) \subseteq EmbeddedMembers(TouchedEntry(bav))

----------------------------------------------------------------------------
(* Key isolation of the create and members transactions *)

\* The last call connected or disconnected a CreateAccessGroup or an
\* AccessGroupMembers transaction.
LastCallOnCreateOrMembers ==
    last.call \in {"_connectAccessGroupCreate", "_connectAccessGroupMembers",
                   "_disconnectAccessGroupCreate", "_disconnectAccessGroupMembers"}

\* What the getters return outside the group of key is the same in the
\* views before and after: the entries of other groups, the membership
\* records of other groups and the attributes of members of other groups.
SameOutsideGroup(key, before, after) ==
    /\ \A k \in AccessGroupKeys \ {key} : after.groups[k] = before.groups[k]
    /\ \A k \in GroupMembershipKeys :
           <<k[2], k[3]>> # key => after.members[k] = before.members[k]
    /\ \A k \in GroupEnumerationKeys \X AttributeTypes :
           <<k[1][1], k[1][2]>> # key => after.memberAttrs[k] = before.memberAttrs[k]

\* C38: the connect and the disconnect of a CreateAccessGroup or
\* AccessGroupMembers transaction signed by S change the group entry, the
\* membership records and the member attributes of one group only, the one
\* keyed (S, name), or (G, name) when the access public key is the base
\* point G; what the getters return at every other key is unchanged.
KeyIsolation ==
    LastCallOnCreateOrMembers
        => SameOutsideGroup(TouchedKey(last.txn), GetterResults(last.pre), GetterResults(bav))

\* The same of the connects and of the disconnect of a creation alone.
KeyIsolationButMembersDisconnect ==
    (LastCallOnCreateOrMembers /\ last.call # "_disconnectAccessGroupMembers")
        => SameOutsideGroup(TouchedKey(last.txn), GetterResults(last.pre), GetterResults(bav))

----------------------------------------------------------------------------
(* The owner a members transaction is disconnected under *)

\* The last call disconnected, without error, a members transaction that
\* adds to an unencrypted group: its access public key is the base point.
DisconnectedUnencryptedAdd ==
    /\ last.call = "_disconnectAccessGroupMembers"
    /\ last.err = NoError
    /\ last.txn.AccessPublicKey = GetS256BasePointCompressed
    /\ last.txn.AccessGroupMemberOperationType = "AccessGroupMemberOperationTypeAdd"

\* The membership record of a member of txn under owner, in the view v.
MemberRecordUnder(v, txn, owner, i) ==
    GetAccessGroupMember(v, txn.AccessGroupMembers[i].GroupMemberPublicKey, owner,
                         NewGroupKeyName(txn.AccessGroupKeyName)).val

\* C39: the disconnect of an AccessGroupMembers transaction resolves the
\* owner the connect resolved: for an Add to an unencrypted group it
\* tombstones the records under (G, name, member), the keys the connect
\* wrote, and touches no key under (txn.PublicKey, name, member).
DisconnectResolvesConnectOwner ==
    DisconnectedUnencryptedAdd
        => \A i \in DOMAIN last.txn.AccessGroupMembers :
               /\ ~IsLive(MemberRecordUnder(bav, last.txn, GetS256BasePointCompressed, i))
               /\ MemberRecordUnder(bav, last.txn, last.txn.PublicKey, i)
                      = MemberRecordUnder(last.pre, last.txn, last.txn.PublicKey, i)

\* Its two halves, apart.
DisconnectTombstonesUnderBasePoint ==
    DisconnectedUnencryptedAdd
        => \A i \in DOMAIN last.txn.AccessGroupMembers :
               ~IsLive(MemberRecordUnder(bav, last.txn, GetS256BasePointCompressed, i))

DisconnectLeavesSignerKeys ==
    DisconnectedUnencryptedAdd
        => \A i \in DOMAIN last.txn.AccessGroupMembers :
               MemberRecordUnder(bav, last.txn, last.txn.PublicKey, i)
                   = MemberRecordUnder(last.pre, last.txn, last.txn.PublicKey, i)

----------------------------------------------------------------------------
(* A disconnect that fails *)

\* The last call was a disconnect that returned an error.
LastDisconnectFailed ==
    /\ last.call \in DisconnectCalls
    /\ last.err # NoError

\* The last call was a _disconnectAccessGroupMembers that failed on a
\* member after the first: on the encrypted key recorded for it.
FailedOnLaterMember ==
    /\ last.call = "_disconnectAccessGroupMembers"
    /\ last.err = "this member was already deleted"
    /\ "utxoOps" \in DOMAIN last
    /\ Len(last.utxoOps) > 0
    /\ LET members == sortAccessGroupMembers(last.txn.AccessGroupMembers)
           prev == sortAccessGroupMembers(
                       last.utxoOps[Len(last.utxoOps)].PrevAccessGroupMembers)
       IN /\ Len(members) > 1
          /\ members[1] = prev[1]

\* C40: a disconnect that returns an error leaves the view as it was; in
\* particular _disconnectAccessGroupMembers that fails on a later member has
\* tombstoned or rewritten no membership record.
FailedDisconnectLeavesView ==
    /\ LastDisconnectFailed => GetterResults(bav) = GetterResults(last.pre)
    /\ FailedOnLaterMember
           => bav.GroupMembershipKeyToAccessGroupMember
                  = last.pre.GroupMembershipKeyToAccessGroupMember

\* The first half: what the getters return is as before the failed call.
FailedDisconnectReadsAsBefore ==
    LastDisconnectFailed => GetterResults(bav) = GetterResults(last.pre)

\* The second half: no membership record of the overlay is written by a
\* _disconnectAccessGroupMembers that fails on a later member.
FailedOnLaterMemberWritesNothing ==
    FailedOnLaterMember
        => bav.GroupMembershipKeyToAccessGroupMember
               = last.pre.GroupMembershipKeyToAccessGroupMember

\* The failed disconnects of the block processor, which hands each
\* transaction the operations its connect returned.
FailedDisconnectInChain ==
    LastDisconnectFailed /\ "utxoOps" \notin DOMAIN last

====
